---- MODULE Spec2Model ----
(***************************************************************************)
(* A model of the resumable step scheduler of pyworkflow:                  *)
(* Step / FunctionStep / Protocol of src/pyworkflow/protocol/protocol.py.  *)
(*                                                                         *)
(* One Protocol is modelled.  Every run of it is a fresh process that      *)
(* loads the Protocol, recomputes the step list (_insertAllSteps), finds   *)
(* the resume index against the persisted step list (steps.sqlite),        *)
(* stores the new list and hands it to the step executor.                  *)
(*                                                                         *)
(* Abstractions: initTime / endTime are not modelled; strings built by     *)
(* concatenation are sequences of their parts; pickle.dumps(x) is the pair *)
(* <<"pickle", x>>; an unset String() attribute is None for the status and *)
(* the empty sequence for _error and _resultFiles.                         *)
(***************************************************************************)
EXTENDS Integers, Sequences, FiniteSets, TLC

\* ------------------------------------------------------------------ bounds
MaxSteps == 3   \* longest step list a protocol definition produces
MaxArg == 2     \* step arguments are drawn from 1..MaxArg
MaxRuns == 2    \* number of runs of the Protocol that are explored
MaxObjs == 4    \* in-memory Objects handed to the graph mapper
MaxVal == 2     \* Integer objects hold values 1..MaxVal
MaxEdits == 3   \* changes made to the in-memory Objects
MaxCalls == 2   \* calls of the graph mapper that are explored
MaxStoreCalls == 3  \* calls explored when Objects are deleted or the database is damaged
MaxRelCalls == 4    \* calls explored when Objects are related
MaxItems == 2       \* ids of the items of a Set
MaxFlatCalls == 4   \* calls of the flat mapper that are explored
MaxShapeCalls == 3  \* calls explored when items of other shapes are passed
MaxOpens == 2       \* mappers opened on the flat mapper's file
MaxReloadCalls == 4     \* mapper calls of a caller that stores, loads and deletes

\* --------------------------------------------------------------- constants
None == "None"
STATUS_RUNNING == "running"
STATUS_FINISHED == "finished"
STATUS_FAILED == "failed"
STATUS_INTERACTIVE == "interactive"
STATUS_ABORTED == "aborted"
MODE_RESUME == "resume"
MODE_RESTART == "restart"

\* pickle.dumps / pickle.loads
PickleDumps(x) == <<"pickle", x>>
PickleLoads(p) == p[2]

\* the path of the result file the body of the step at 1-based index i writes
PathOf(i) == ToString(i)
Paths == {PathOf(i) : i \in 1..MaxSteps}

FuncNames == {"f", "pick"}

VARIABLES
    params,      \* the protocol's parameters: the step definitions _insertAllSteps will insert
    prot,        \* the Protocol object (its own Step attributes and counters)
    steps,       \* Protocol._steps of the current run
    stepsFile,   \* the persisted step list (steps.sqlite)
    files,       \* the paths that exist on disk
    pc,          \* "idle": between runs, after the environment acted; "steps": in the
                 \* executor's loop; "body": a step is running; "stopped": the loop was
                 \* left early; "returned": run() just returned; "crashed": an
                 \* exception left run()
    cur,         \* 1-based position of the executor's loop over steps
    runs,        \* number of runs started
    startIndex,  \* the resume index computed by the current / last run (-1: none computed)
    executed,    \* 0-based positions whose body was executed in the current / last run, in order
    prevAtStart, \* the persisted step list as it was when the current / last run began
    filesAtStart,\* the existing paths when the current / last run began
    modeAtStart, \* the runMode the current / last run began with
    validation,  \* what validate() returned in the current / last run
    lastExc,     \* the exception that left _run of the step executed last in this run
    heap,        \* the in-memory Objects a caller of the graph mapper holds, by handle
    rows,        \* the Objects table of the graph mapper's database; the id is the position
    mapper,      \* the SqliteMapper: objDict, updateDict, updatePendingPointers and the
                 \* objects it built
    relations,   \* the Relations table of the graph mapper's database
    last,        \* the last call of a mapper and how it ended, whether the
                 \* Objects were edited since, whether a call raised so far, and the
                 \* calls and edits made so far
    flat         \* the flat mapper: its database file, the open connection's view
                 \* of it, the SqliteFlatMapper and SqliteFlatDb fields, and the
                 \* items and results its caller holds

mapperVars == <<heap, rows, mapper, relations, last, flat>>

protocolVars == <<params, prot, steps, stepsFile, files, pc, cur, runs,
                  startIndex, executed, prevAtStart, filesAtStart, modeAtStart,
                  validation, lastExc>>

vars == <<params, prot, steps, stepsFile, files, pc, cur, runs,
          startIndex, executed, prevAtStart, filesAtStart, modeAtStart, validation, lastExc,
          heap, rows, mapper, relations, last, flat>>

\* ------------------------------------------------------------------- Step
\* Step.__init__ / FunctionStep.__init__
NewFunctionStep(funcName, funcArgs, isInteractive) ==
    [funcName |-> funcName,
     argsStr |-> PickleDumps(funcArgs),
     isInteractive |-> isInteractive,
     prerequisites |-> <<>>,
     status |-> None,
     error |-> <<>>,
     resultFiles |-> <<>>]

GetStatus(s) == IF s.status = None THEN "new" ELSE s.status

IsFinishedOrFailed(s) == GetStatus(s) \in {STATUS_FINISHED, STATUS_FAILED}

\* Step.isFinished
IsFinished(s) == GetStatus(s) = STATUS_FINISHED

SetRunning(s) == [s EXCEPT !.status = STATUS_RUNNING, !.error = <<>>]

SetFailedWrongStatus(s, msg) == [s EXCEPT !.error = msg, !.status = STATUS_FINISHED]

SetFailed(s, msg) == [s EXCEPT !.error = msg, !.status = STATUS_FAILED]

\* Step.setAborted
SetAborted(s) == [s EXCEPT !.error = <<"Aborted by user.">>, !.status = STATUS_ABORTED]

GetErrorMessage(s) == s.error

\* An exception in flight: kind "none" (no exception), "Exception" (an instance of
\* Exception) or "BaseException" (KeyboardInterrupt, SystemExit: not an Exception).
NoExc == [kind |-> "none", msg |-> <<>>]
Exc(kind, msg) == [kind |-> kind, msg |-> msg]

\* missingPaths(*paths): the paths that do not exist
RECURSIVE MissingPaths(_, _)
MissingPaths(paths, existing) ==
    IF paths = <<>> THEN <<>>
    ELSE (IF Head(paths) \in existing THEN <<>> ELSE <<Head(paths)>>)
         \o MissingPaths(Tail(paths), existing)

FunctionStepRunNoCheck(s, ret, existing) ==
    IF ret.exc.kind # "none" THEN [exc |-> ret.exc, step |-> s]
    ELSE IF ret.resultFiles # <<>>
         THEN [exc |-> NoExc,
               step |-> [s EXCEPT !.resultFiles = PickleDumps(ret.resultFiles)]]
         ELSE [exc |-> NoExc, step |-> s]

\* FunctionStep._run: ret is what the bound function did: an exception it raised, or
\* the result paths it returned; existing are the paths on disk when it returned.
\* The result: the exception leaving _run and the step.
FunctionStepRun(s, ret, existing) ==
    IF ret.exc.kind # "none" THEN [exc |-> ret.exc, step |-> s]
    ELSE IF ret.resultFiles # <<>>
         THEN IF MissingPaths(ret.resultFiles, existing) # <<>>
              THEN [exc |-> Exc("Exception", <<"Missing filePaths: ">>
                                   \o MissingPaths(ret.resultFiles, existing)),
                    step |-> s]
              ELSE [exc |-> NoExc,
                    step |-> [s EXCEPT !.resultFiles = PickleDumps(ret.resultFiles)]]
         ELSE [exc |-> NoExc, step |-> s]

PostconditionsAlwaysTrue(s, existing) == TRUE

\* FunctionStep._postconditions
Postconditions(s, existing) ==
    IF s.resultFiles = <<>> THEN TRUE
    ELSE MissingPaths(PickleLoads(s.resultFiles), existing) = <<>>

StepEqWholeStep(a, b) == a = b

\* FunctionStep.__eq__
StepEq(a, b) == a.funcName = b.funcName /\ a.argsStr = b.argsStr

StepRunIgnoresFlag(r) ==
    IF r.exc.kind = "none"
    THEN [raised |-> FALSE,
          step |-> IF r.step.status = STATUS_RUNNING
                   THEN [r.step EXCEPT !.status = STATUS_INTERACTIVE]
                   ELSE r.step]
    ELSE IF r.exc.kind = "Exception"
         THEN [raised |-> FALSE, step |-> SetFailed(r.step, r.exc.msg)]
         ELSE [raised |-> TRUE, step |-> r.step]

StepRunOverwritesStatus(r) ==
    IF r.exc.kind = "none"
    THEN [raised |-> FALSE,
          step |-> [r.step EXCEPT !.status = IF r.step.isInteractive
                                              THEN STATUS_INTERACTIVE
                                              ELSE STATUS_FINISHED]]
    ELSE IF r.exc.kind = "Exception"
         THEN [raised |-> FALSE, step |-> SetFailed(r.step, r.exc.msg)]
         ELSE [raised |-> TRUE, step |-> r.step]

\* Step.run after setRunning: r is the outcome of self._run() (the exception that
\* left it and the object as _run left it).  An Exception is caught and recorded;
\* anything else propagates to the caller (raised = TRUE).
StepRun(r) ==
    IF r.exc.kind = "none"
    THEN [raised |-> FALSE,
          step |-> IF r.step.status = STATUS_RUNNING
                   THEN [r.step EXCEPT !.status = IF r.step.isInteractive
                                                  THEN STATUS_INTERACTIVE
                                                  ELSE STATUS_FINISHED]
                   ELSE r.step]
    ELSE IF r.exc.kind = "Exception"
         THEN [raised |-> FALSE, step |-> SetFailed(r.step, r.exc.msg)]
         ELSE [raised |-> TRUE, step |-> r.step]

\* --------------------------------------------------------------- Protocol
\* Object.copy(other): every attribute of other is copied onto self
Copy(newStep, oldStep) == oldStep

\* Protocol.__insertStep: kwargs.hasPrerequisites is whether 'prerequisites' was passed
InsertStep(ss, step, kwargs) ==
    LET prerequisites ==
            IF ~kwargs.hasPrerequisites
            THEN (IF Len(ss) > 0 THEN <<Len(ss)>> ELSE <<>>)
            ELSE kwargs.prerequisites
    IN Append(ss, [step EXCEPT !.prerequisites = prerequisites])

\* Protocol._insertFunctionStep(funcName, *funcArgs, **kwargs)
InsertFunctionStep(ss, d) ==
    InsertStep(ss, NewFunctionStep(d.funcName, <<d.args>>, d.isInteractive), d)

\* Protocol._insertAllSteps: the step-definition hook of the protocol under
\* study inserts one function step per entry of its parameters.
RECURSIVE InsertAllStepsFrom(_, _)
InsertAllStepsFrom(ss, ds) ==
    IF ds = <<>> THEN ss
    ELSE InsertAllStepsFrom(InsertFunctionStep(ss, Head(ds)), Tail(ds))

InsertAllSteps(ds) == InsertAllStepsFrom(<<>>, ds)

\* Protocol.loadSteps: clones of the persisted steps ([] when there is no file)
LoadSteps(stored) == stored

MustRedoIgnoresStatus(newStep, oldStep, existing) ==
    ~StepEq(newStep, oldStep) \/ ~Postconditions(oldStep, existing)

\* the condition of Protocol.__findStartingStep's loop that stops the walk
MustRedo(newStep, oldStep, existing) ==
    \/ ~IsFinished(oldStep)
    \/ ~StepEq(newStep, oldStep)
    \/ ~Postconditions(oldStep, existing)

\* the loop of Protocol.__findStartingStep from 0-based position i
RECURSIVE WalkSteps(_, _, _, _, _)
WalkSteps(i, n, newSteps, prevSteps, existing) ==
    IF i >= n THEN [index |-> n, steps |-> newSteps]
    ELSE IF MustRedo(newSteps[i + 1], prevSteps[i + 1], existing)
         THEN [index |-> i, steps |-> newSteps]
         ELSE WalkSteps(i + 1, n,
                        [newSteps EXCEPT ![i + 1] = Copy(newSteps[i + 1], prevSteps[i + 1])],
                        prevSteps, existing)

FindStartingStepNoCopy(runMode, newSteps, stored, existing) ==
    IF runMode = MODE_RESTART
    THEN [index |-> 0, steps |-> newSteps]
    ELSE [index |-> WalkSteps(0, (IF Len(newSteps) < Len(LoadSteps(stored))
                    THEN Len(newSteps) ELSE Len(LoadSteps(stored))),
                              newSteps, LoadSteps(stored), existing).index,
          steps |-> newSteps]

FindStartingStepAlwaysResumes(runMode, newSteps, stored, existing) ==
    WalkSteps(0, (IF Len(newSteps) < Len(LoadSteps(stored))
                    THEN Len(newSteps) ELSE Len(LoadSteps(stored))),
              newSteps, LoadSteps(stored), existing)

\* Protocol.__findStartingStep: the resume index and the steps after the copies
FindStartingStep(runMode, newSteps, stored, existing) ==
    IF runMode = MODE_RESTART
    THEN [index |-> 0, steps |-> newSteps]
    ELSE WalkSteps(0, (IF Len(newSteps) < Len(LoadSteps(stored))
                    THEN Len(newSteps) ELSE Len(LoadSteps(stored))),
                   newSteps, LoadSteps(stored), existing)

\* Protocol.__storeSteps: the step file is cleared and holds the new steps
StoreSteps(p, ss, stored) ==
    [prot |-> [p EXCEPT !.isInteractive =
                   p.isInteractive \/ (\E i \in 1..Len(ss) : ss[i].isInteractive)],
     stored |-> ss]

UpdateStepNoWrite(stored, i, step) == stored

\* Protocol.__updateStep: the row of the step at 1-based position i is rewritten
UpdateStep(stored, i, step) == [stored EXCEPT ![i] = step]

StepFinishedCountsFinishedOnly(p, step) ==
    LET errorMsg == <<"Protocol failed: ">> \o GetErrorMessage(step)
        p1 == IF step.status = STATUS_FAILED THEN SetFailed(p, errorMsg) ELSE p
        doContinue == step.status \notin {STATUS_INTERACTIVE, STATUS_FAILED}
    IN [doContinue |-> doContinue,
        prot |-> [p1 EXCEPT !.lastStatus = GetStatus(step),
                            !.stepsDone = IF doContinue THEN p1.stepsDone + 1
                                          ELSE p1.stepsDone]]

StepFinishedKeepsGoing(p, step) ==
    LET errorMsg == <<"Protocol failed: ">> \o GetErrorMessage(step)
        p1 == IF step.status = STATUS_FAILED THEN SetFailed(p, errorMsg) ELSE p
    IN [doContinue |-> TRUE,
        prot |-> [p1 EXCEPT !.lastStatus = GetStatus(step),
                            !.stepsDone = p1.stepsDone + 1]]

StepFinishedFailsInteractive(p, step) ==
    LET errorMsg == <<"Protocol failed: ">> \o GetErrorMessage(step)
        p1 == IF step.status \in {STATUS_FAILED, STATUS_INTERACTIVE}
              THEN SetFailed(p, errorMsg) ELSE p
    IN [doContinue |-> step.status \notin {STATUS_INTERACTIVE, STATUS_FAILED},
        prot |-> [p1 EXCEPT !.lastStatus = p1.status,
                            !.stepsDone = p1.stepsDone + 1]]

\* Protocol._stepFinished without its __updateStep: the value it returns and the Protocol
StepFinished(p, step) ==
    LET errorMsg == <<"Protocol failed: ">> \o GetErrorMessage(step)
        p1 == IF step.status = STATUS_INTERACTIVE THEN p
              ELSE IF step.status = STATUS_FAILED THEN SetFailed(p, errorMsg)
              ELSE p
    IN [doContinue |-> step.status \notin {STATUS_INTERACTIVE, STATUS_FAILED},
        prot |-> [p1 EXCEPT !.lastStatus = GetStatus(step),
                            !.stepsDone = p1.stepsDone + 1]]

RunStepsBeginKeepsMode(p, ss, index) ==
    [SetRunning([p EXCEPT !.stepsDone = index, !.numberOfSteps = Len(ss)])
        EXCEPT !.lastStatus = STATUS_RUNNING]

\* Protocol._runSteps up to the call of the executor
RunStepsBegin(p, ss, index) ==
    [SetRunning([p EXCEPT !.stepsDone = index, !.numberOfSteps = Len(ss)])
        EXCEPT !.runMode = MODE_RESUME, !.lastStatus = STATUS_RUNNING]

\* Protocol._runSteps after the executor returned
RunStepsEnd(p) == [p EXCEPT !.status = p.lastStatus]

ProtocolRunChecksNothing(p, hasExecutor, errors) == NoExc

\* Protocol._run up to _insertAllSteps: the exception its checks raise
ProtocolRunChecks(p, hasExecutor, errors) ==
    IF ~hasExecutor
    THEN Exc("Exception", <<"Protocol.run: Steps executor should be set before running protocol">>)
    ELSE IF Len(errors) # 0
         THEN Exc("Exception", <<"Protocol.run: Validation errors:\n">> \o errors)
         ELSE NoExc

RECURSIVE PromoteEveryInteractive(_)
PromoteEveryInteractive(stored) ==
    IF stored = <<>> THEN <<>>
    ELSE <<IF GetStatus(Head(stored)) = STATUS_INTERACTIVE
           THEN [Head(stored) EXCEPT !.status = STATUS_FINISHED]
           ELSE Head(stored)>> \o PromoteEveryInteractive(Tail(stored))

\* Protocol.continueFromInteractive on the step file
RECURSIVE PromoteFirstInteractive(_)
PromoteFirstInteractive(stored) ==
    IF stored = <<>> THEN <<>>
    ELSE IF GetStatus(Head(stored)) = STATUS_INTERACTIVE
         THEN <<[Head(stored) EXCEPT !.status = STATUS_FINISHED]>> \o Tail(stored)
         ELSE <<Head(stored)>> \o PromoteFirstInteractive(Tail(stored))

\* ----------------------------------------------------------- graph mapper
\* Object: _objId / _objParentId that is None, a Pointer without referent
NoneId == 0
\* the SQL NULL a None value is stored as
Null == "NULL"

Handles == 1..MaxObjs
\* the attribute name under which a composite holds the Object with handle c
KeyOf(c) == "k" \o ToString(c)

\* the classes of the Objects the callers hold: composites, a Pointer, an Integer
ClassOf(h) ==
    IF h % 4 = 3 THEN "Pointer" ELSE IF h % 4 = 0 THEN "Integer" ELSE "Object"

\* Object.__init__: no id, no parent, an empty name, no attributes; for a
\* Protocol, __init__ leaves _outputs empty
NewObject(cls) ==
    [cls |-> cls,
     value |-> NoneId,
     attrs |-> <<>>,
     objId |-> NoneId,
     objName |-> <<>>,
     objParentId |-> NoneId,
     outputs |-> <<>>]

\* SqliteMapper.__init__: __initObjDict and __initUpdateDict
NewMapper == [objDict |-> <<>>, updateDict |-> {}, updatePendingPointers |-> <<>>, built |-> <<>>]

OK == "none"

\* A dotted name is the sequence of its components ('' is the empty sequence).
\* Object.strId: str(self._objId)
StrId(id) == IF id = NoneId THEN "None" ELSE ToString(id)

\* joinExt(prefix, ext): prefix + '.' + ext
JoinExt(prefix, ext) == Append(prefix, ext)

\* SqliteMapper.__getNamePrefix, of an object with this _objName and _objId;
\* replaceExt(name, ext) is name without its last component, + '.' + ext
GetNamePrefix(name, id) ==
    IF Len(name) >= 2 THEN Append(SubSeq(name, 1, Len(name) - 1), StrId(id))
    ELSE <<StrId(id)>>

\* SqliteMapper.__getObjectValue of the object with handle h: the value to store
\* and the mapper state (the pointer may have been queued as pending)
GetObjectValue(st, h) ==
    LET o == st.heap[h]
    IN IF o.cls = "Pointer" /\ o.value # NoneId
       THEN IF st.heap[o.value].objId # NoneId
            THEN [value |-> StrId(st.heap[o.value].objId), st |-> st]
            ELSE [value |-> "Pending update",
                  st |-> [st EXCEPT !.mapper.updatePendingPointers = Append(@, h)]]
       ELSE [value |-> IF o.cls = "Integer" THEN ToString(o.value) ELSE Null, st |-> st]

\* SqliteDb.insertObject: the table after the INSERT; lastrowid is its length
InsertObject(table, name, classname, value, parent_id) ==
    Append(table, [id |-> Len(table) + 1, parent_id |-> parent_id, name |-> name,
                   classname |-> classname, value |-> value])

\* the place a deleted row leaves in the table: AUTOINCREMENT never reuses its id
DeletedRow == [id |-> NoneId, parent_id |-> NoneId, name |-> <<>>,
               classname |-> "", value |-> Null]

\* the table holds a row with this id
HasRow(table, objId) == objId \in 1..Len(table) /\ table[objId].id = objId

\* SqliteDb.updateObject: UPDATE ... WHERE id=?
UpdateObject(table, objId, name, classname, value, parent_id) ==
    IF HasRow(table, objId)
    THEN [table EXCEPT ![objId] = [id |-> objId, parent_id |-> parent_id, name |-> name,
                                   classname |-> classname, value |-> value]]
    ELSE table

\* the id the first row of a new table gets is 1; rows inserted and deleted by
\* earlier sessions leave the ids up to FirstFreeId - 1 used
FirstFreeId == 10

\* the depth of nested calls at which the interpreter raises its recursion error:
\* deeper than the walk of any acyclic graph of MaxObjs Objects
RecursionLimit == MaxObjs

\* SqliteMapper.__insert, insertChild and insertChilds.  st is the heap, the table,
\* the mapper and the exception in flight; namePrefix <<>> stands for None.
RECURSIVE MapperInsert(_, _, _, _)
RECURSIVE InsertChildsFrom(_, _, _, _, _)
InsertChild(st, h, key, a, namePrefix, depth) ==
    LET prefix == IF namePrefix = <<>>
                  THEN GetNamePrefix(st.heap[h].objName, st.heap[h].objId)
                  ELSE namePrefix
        st1 == [st EXCEPT !.heap[a].objName = JoinExt(prefix, key),
                          !.heap[a].objParentId = st.heap[h].objId]
    IN MapperInsert(st1, a, prefix, depth)

\* the loop of insertChilds from the k-th attribute of the object on
InsertChildsFrom(st, h, namePrefix, k, depth) ==
    IF st.exc # OK \/ k > Len(st.heap[h].attrs) THEN st
    ELSE InsertChildsFrom(
             InsertChild(st, h, st.heap[h].attrs[k][1], st.heap[h].attrs[k][2],
                         namePrefix, depth),
             h, namePrefix, k + 1, depth)

MapperInsert(st, h, namePrefix, depth) ==
    IF depth > RecursionLimit THEN [st EXCEPT !.exc = "RecursionError"]
    ELSE IF /\ st.heap[h].objParentId # NoneId
            /\ ~HasRow(st.rows, st.heap[h].objParentId)
         THEN [st EXCEPT !.exc = "IntegrityError"]
    ELSE LET v == GetObjectValue(st, h)
             o == v.st.heap[h]
             table == InsertObject(v.st.rows, o.objName, o.cls, v.value, o.objParentId)
             st1 == [v.st EXCEPT !.rows = table, !.heap[h].objId = Len(table)]
             sid == StrId(Len(table))
         IN InsertChildsFrom(st1, h,
                             IF namePrefix = <<>> THEN <<sid>> ELSE JoinExt(namePrefix, sid),
                             1, depth + 1)

\* the largest id a row can get within the calls explored
MaxRowId == FirstFreeId + (MaxRelCalls + MaxCalls) * (RecursionLimit + MaxObjs)

\* the decimal digits of n
RECURSIVE Digits(_)
Digits(n) == IF n < 10 THEN <<ToString(n)>> ELSE Append(Digits(n \div 10), ToString(n % 10))

\* the characters of a dotted name: the digits of an id; a key (or 'None') stands
\* as a whole, it holds no '.' and is no id
RECURSIVE Text(_)
Text(name) ==
    IF name = <<>> THEN <<>>
    ELSE LET comp == name[Len(name)]
         IN (IF Len(name) = 1 THEN <<>>
             ELSE Text(SubSeq(name, 1, Len(name) - 1)) \o <<".">>)
            \o (IF \E n \in 0..MaxRowId : ToString(n) = comp
                THEN Digits(CHOOSE n \in 0..MaxRowId : ToString(n) = comp)
                ELSE <<comp>>)

LikeNoDot(name, namePrefix) ==
    /\ Len(Text(name)) >= Len(Text(namePrefix))
    /\ SubSeq(Text(name), 1, Len(Text(namePrefix))) = Text(namePrefix)

\* name LIKE 'namePrefix.%'
Like(name, namePrefix) ==
    /\ Len(Text(name)) >= Len(Text(namePrefix)) + 1
    /\ SubSeq(Text(name), 1, Len(Text(namePrefix)) + 1) = Text(namePrefix) \o <<".">>

\* SqliteMapper.__initUpdateDict
InitUpdateDict(m) == [m EXCEPT !.updateDict = {}, !.updatePendingPointers = <<>>]

\* SqliteMapper.__updateTo
RECURSIVE UpdateToInner(_, _, _)
RECURSIVE UpdateAttrsFrom(_, _, _, _)
UpdateAttrsFrom(st, h, k, depth) ==
    IF st.exc # OK \/ k > Len(st.heap[h].attrs) THEN st
    ELSE LET key == st.heap[h].attrs[k][1]
             a == st.heap[h].attrs[k][2]
             obj == st.heap[h]
             namePrefix == GetNamePrefix(obj.objName, obj.objId)
         IN UpdateAttrsFrom(
                IF st.heap[a].objId = NoneId
                THEN MapperInsert([st EXCEPT !.heap[a].objParentId = obj.objId,
                                             !.heap[a].objName = JoinExt(namePrefix, key)],
                                  a, namePrefix, depth)
                ELSE UpdateToInner(st, a, depth),
                h, k + 1, depth)

UpdateToInner(st, h, depth) ==
    IF depth > RecursionLimit THEN [st EXCEPT !.exc = "RecursionError"]
    ELSE LET v == GetObjectValue(st, h)
             o == v.st.heap[h]
             st1 == [v.st EXCEPT !.rows = UpdateObject(@, o.objId, o.objName, o.cls,
                                                      v.value, o.objParentId)]
         IN IF o.objId \in st1.mapper.updateDict
            THEN [st1 EXCEPT !.exc = "Circular reference"]
            ELSE UpdateAttrsFrom([st1 EXCEPT !.mapper.updateDict = @ \cup {o.objId}],
                                 h, 1, depth + 1)

\* the loop of updateTo over updatePendingPointers from its k-th entry on; a loop
\* whose every pass appends to the list it runs over does not end
RECURSIVE UpdatePendingFrom(_, _, _)
UpdatePendingFrom(st, h, k) ==
    IF k > Len(st.mapper.updatePendingPointers) THEN st
    ELSE LET ptr == st.heap[st.mapper.updatePendingPointers[k]]
             v == GetObjectValue(st, h)
             st1 == [v.st EXCEPT !.rows = UpdateObject(@, ptr.objId, ptr.objName, ptr.cls,
                                                      v.value, ptr.objParentId)]
         IN IF Len(st1.mapper.updatePendingPointers) > Len(st.mapper.updatePendingPointers)
            THEN [st1 EXCEPT !.exc = "NoReturn"]
            ELSE UpdatePendingFrom(st1, h, k + 1)

\* SqliteMapper.updateTo
MapperUpdateTo(st, h) ==
    LET st1 == UpdateToInner([st EXCEPT !.mapper = InitUpdateDict(@)], h, 1)
    IN IF st1.exc # OK THEN st1 ELSE UpdatePendingFrom(st1, h, 1)

\* int(text): the text is the decimal form of a number
IsInt(text) == \E n \in 0..MaxRowId : ToString(n) = text
ParseInt(text) == CHOOSE n \in 0..MaxRowId : ToString(n) = text

\* Mapper._buildObject: a new instance of the class (the last of mapper.built)
BuildObject(st, classname) ==
    [st EXCEPT !.mapper.built = Append(@, NewObject(classname))]

\* getattr(parentObj, childName, None): the instance held under that key, or NoneId
GetAttr(obj, childName) ==
    IF \E k \in 1..Len(obj.attrs) : obj.attrs[k][1] = childName
    THEN obj.attrs[CHOOSE k \in 1..Len(obj.attrs) : obj.attrs[k][1] = childName][2]
    ELSE NoneId

\* setattr(obj, key, child) on an attribute list
SetAttrIn(attrs, key, child) ==
    IF \E k \in 1..Len(attrs) : attrs[k][1] = key
    THEN [k \in 1..Len(attrs) |-> IF attrs[k][1] = key THEN <<key, child>> ELSE attrs[k]]
    ELSE Append(attrs, <<key, child>>)

\* SqliteDb.selectObjectsByAncestor: name LIKE 'prefix.%' ORDER BY id
SelectObjectsByAncestor(table, namePrefix) ==
    SelectSeq(table, LAMBDA r : r.id # NoneId /\ Like(r.name, namePrefix))

\* SqliteMapper.selectById, fillObjectWithRow and fillObject.  The instances the
\* mapper builds are the entries of mapper.built; objDict maps ids to them.
RECURSIVE MapperSelectById(_, _)
RECURSIVE FillObjectWithRow(_, _, _)
RECURSIVE FillChildsFrom(_, _, _)

FillObjectWithRow(st, i, objRow) ==
    LET st1 == [st EXCEPT !.mapper.built[i].objId = objRow.id,
                          !.mapper.objDict = (objRow.id :> i) @@ @,
                          !.mapper.built[i].objName = objRow.name,
                          !.mapper.built[i].objParentId = objRow.parent_id]
        cls == st.mapper.built[i].cls
    IN IF cls = "Pointer" /\ objRow.value # Null
       THEN IF ~IsInt(objRow.value) THEN [st1 EXCEPT !.exc = "ValueError"]
            ELSE LET r == MapperSelectById(st1, ParseInt(objRow.value))
                 IN IF r.st.exc # OK THEN r.st
                    ELSE [r.st EXCEPT !.mapper.built[i].value = r.obj]
       ELSE IF cls = "Integer" /\ objRow.value # Null
            THEN IF ~IsInt(objRow.value) THEN [st1 EXCEPT !.exc = "ValueError"]
                 ELSE [st1 EXCEPT !.mapper.built[i].value = ParseInt(objRow.value)]
            ELSE [st1 EXCEPT !.mapper.built[i].value = NoneId]

\* the loop of fillObject over the rows childs
FillChildsFrom(st, childs, k) ==
    IF st.exc # OK \/ k > Len(childs) THEN st
    ELSE LET childRow == childs[k]
             childName == childRow.name[Len(childRow.name)]
             parentText == childRow.name[Len(childRow.name) - 1]
         IN IF ~IsInt(parentText) THEN [st EXCEPT !.exc = "ValueError"]
            ELSE IF ParseInt(parentText) \notin DOMAIN st.mapper.objDict
                 THEN [st EXCEPT !.exc = "Parent object was not found"]
                 ELSE LET p == st.mapper.objDict[ParseInt(parentText)]
                          had == GetAttr(st.mapper.built[p], childName)
                          st1 == IF had # NoneId THEN st
                                 ELSE LET b == BuildObject(st, childRow.classname)
                                      IN [b EXCEPT !.mapper.built[p].attrs =
                                              SetAttrIn(@, childName, Len(b.mapper.built))]
                          c == GetAttr(st1.mapper.built[p], childName)
                      IN FillChildsFrom(FillObjectWithRow(st1, c, childRow), childs, k + 1)

FillObject(st, i, objRow) ==
    LET st1 == FillObjectWithRow(st, i, objRow)
    IN IF st1.exc # OK THEN st1
       ELSE FillChildsFrom(st1,
                SelectObjectsByAncestor(st1.rows,
                    GetNamePrefix(st1.mapper.built[i].objName, st1.mapper.built[i].objId)),
                1)

\* the object returned (an index of mapper.built, NoneId for None) and the state
MapperSelectById(st, objId) ==
    IF objId \in DOMAIN st.mapper.objDict
    THEN [obj |-> st.mapper.objDict[objId], st |-> st]
    ELSE IF ~HasRow(st.rows, objId)
         THEN [obj |-> NoneId, st |-> st]
         ELSE LET b == BuildObject(st, st.rows[objId].classname)
                  i == Len(b.mapper.built)
              IN [obj |-> i, st |-> FillObject(b, i, st.rows[objId])]

\* DELETE FROM Objects WHERE ...: the rows with an id in D go.  PRAGMA
\* foreign_keys=ON: the Relations rows whose object_parent_id or object_child_id is
\* deleted go with them (ON DELETE CASCADE); a row left behind that still refers to
\* a deleted row, as its parent_id, makes the statement fail and change nothing.
DeleteRows(st, D) ==
    LET table == [j \in 1..Len(st.rows) |->
                      IF st.rows[j].id \in D THEN DeletedRow ELSE st.rows[j]]
        rels == SelectSeq(st.relations,
                          LAMBDA r : r.object_parent_id \notin D /\ r.object_child_id \notin D)
    IN IF \/ \E j \in 1..Len(table) : table[j].id # NoneId /\ table[j].parent_id \in D
          \/ \E k \in 1..Len(rels) : rels[k].parent_id \in D
       THEN [st EXCEPT !.exc = "IntegrityError"]
       ELSE [st EXCEPT !.rows = table, !.relations = rels]

DeleteChildObjectsNoDot(st, ancestor_namePrefix) ==
    DeleteRows(st, {st.rows[j].id : j \in {i \in 1..Len(st.rows) :
                       st.rows[i].id # NoneId /\ LikeNoDot(st.rows[i].name, ancestor_namePrefix)}})

\* SqliteDb.deleteChildObjects: DELETE ... WHERE name LIKE 'prefix.%'
DeleteChildObjects(st, ancestor_namePrefix) ==
    DeleteRows(st, {st.rows[j].id : j \in {i \in 1..Len(st.rows) :
                       st.rows[i].id # NoneId /\ Like(st.rows[i].name, ancestor_namePrefix)}})

\* SqliteMapper.delete: deleteChilds (SqliteDb.deleteChildObjects of the name
\* prefix) and then SqliteDb.deleteObject, DELETE ... WHERE id=?  (no row has
\* the id NULL)
MapperDelete(st, h) ==
    LET st1 == DeleteChildObjects(st, GetNamePrefix(st.heap[h].objName, st.heap[h].objId))
        objId == st1.heap[h].objId
    IN IF st1.exc # OK THEN st1
       ELSE DeleteRows(st1, IF HasRow(st1.rows, objId) THEN {objId} ELSE {})

\* SqliteMapper.insertRelation and SqliteDb.insertRelation
InsertRelation(st, relName, creator, parent, child) ==
    IF \E o \in {creator, parent, child} : st.heap[o].objId = NoneId
    THEN [st EXCEPT !.exc = "Before adding a relation, the object should be stored in mapper"]
    ELSE IF \E o \in {creator, parent, child} : ~HasRow(st.rows, st.heap[o].objId)
         THEN [st EXCEPT !.exc = "IntegrityError"]
         ELSE [st EXCEPT !.relations =
                   Append(@, [parent_id |-> st.heap[creator].objId, name |-> relName,
                              object_parent_id |-> st.heap[parent].objId,
                              object_child_id |-> st.heap[child].objId])]

\* SqliteMapper.__objectsFromIds: selectById of every id, in order; the objects
\* built so far and the state
RECURSIVE ObjectsFromIds(_, _, _)
ObjectsFromIds(st, objIds, objs) ==
    IF st.exc # OK \/ objIds = <<>> THEN [objs |-> objs, st |-> st]
    ELSE LET r == MapperSelectById(st, Head(objIds))
         IN ObjectsFromIds(r.st, Tail(objIds), Append(objs, r.obj))

\* SqliteMapper.getRelationChilds and SqliteDb.selectRelationChilds: a comparison
\* with NULL (the id None) selects no row
GetRelationChilds(st, relName, parentObj) ==
    LET sel == SelectSeq(st.relations,
                   LAMBDA r : /\ st.heap[parentObj].objId # NoneId
                              /\ r.name = relName
                              /\ r.object_parent_id = st.heap[parentObj].objId)
    IN ObjectsFromIds(st, [k \in 1..Len(sel) |-> sel[k].object_child_id], <<>>)

\* SqliteMapper.getRelationParents and SqliteDb.selectRelationParents
GetRelationParents(st, relName, childObj) ==
    LET sel == SelectSeq(st.relations,
                   LAMBDA r : /\ st.heap[childObj].objId # NoneId
                              /\ r.name = relName
                              /\ r.object_child_id = st.heap[childObj].objId)
    IN ObjectsFromIds(st, [k \in 1..Len(sel) |-> sel[k].object_parent_id], <<>>)

\* SqliteMapper.getRelationsByCreator and SqliteDb.selectRelationsByCreator
GetRelationsByCreator(st, creatorObj) ==
    SelectSeq(st.relations,
              LAMBDA r : /\ st.heap[creatorObj].objId # NoneId
                         /\ r.parent_id = st.heap[creatorObj].objId)

\* ------------------------------------------------------------- flat mapper
\* The items of a Set: an id, a class and the attributes getObjDict lists, each
\* <<name, class, value>>.  The value of an Integer is a number and the value of
\* a Boolean is "True" or "False"; an attribute without value holds None.
NoneOf(cls) == IF cls = "Boolean" THEN "None" ELSE -1

\* the NULL of a column
SqlNull == -1

\* Scalar.set / _convertValue of what a column holds: int(value), bool(value)
ConvertValue(cls, cell) ==
    IF cell = SqlNull THEN NoneOf(cls)
    ELSE IF cls = "Boolean" THEN (IF cell # 0 THEN "True" ELSE "False")
    ELSE cell

\* obj.getObjDict(includeClass=True): 'self' and then every attribute, <<key, class>>
GetObjDict(obj) ==
    <<<<"self", obj.cls>>>> \o [k \in 1..Len(obj.attrs) |-> <<obj.attrs[k][1], obj.attrs[k][2]>>]

\* obj.getObjDict().values(), as sqlite3 binds them: None as NULL, True as 1,
\* False as 0
ObjValues(obj) ==
    [k \in 1..Len(obj.attrs) |->
        LET cls == obj.attrs[k][2]
            value == obj.attrs[k][3]
        IN IF value = NoneOf(cls) THEN SqlNull
           ELSE IF cls = "Boolean" THEN (IF value = "True" THEN 1 ELSE 0)
           ELSE value]

\* SqliteFlatDb.CLASS_MAP.get(className, 'TEXT')
CLASS_MAP(className) ==
    IF className \in {"Integer", "Boolean"} THEN "INTEGER"
    ELSE IF className = "Float" THEN "REAL" ELSE "TEXT"

\* 'c%02d' % c
ColName(c) == IF c < 10 THEN "c0" \o ToString(c) ELSE "c" \o ToString(c)

\* a database file without the Classes and Objects tables
NoTables == [tables |-> FALSE, classes |-> <<>>, columns |-> <<>>, objects |-> {}]

\* SqliteFlatDb.__init__: INSERT_OBJECT = UPDATE_OBJECT = None
NoCommand == [columns |-> <<>>, bindings |-> -1]

\* SqliteFlatMapper.__init__: _objTemplate = None
NoTemplate == [objId |-> NoneId, cls |-> "None", attrs |-> <<>>]

\* the keys of objDict other than 'self', with their position in the dict
NonSelf(objDict) == SelectSeq([k \in 1..Len(objDict) |-> <<k - 1, objDict[k][1], objDict[k][2]>>],
                             LAMBDA e : e[2] # "self")

\* SqliteFlatDb.setupCommands: the columns INSERT_OBJECT and UPDATE_OBJECT name and
\* the number of their '?'
SetupCommands(objDict) ==
    LET cols == [k \in 1..Len(NonSelf(objDict)) |-> ColName(NonSelf(objDict)[k][1])]
    IN [INSERT_OBJECT |-> [columns |-> <<"id", "label", "comment">> \o cols,
                           bindings |-> 2 + Len(objDict)],
        UPDATE_OBJECT |-> [columns |-> <<"label", "comment">> \o cols,
                           bindings |-> 2 + Len(cols) + 1]]

\* SqliteFlatDb.createTables up to its commit: a Classes row for every key of
\* objDict, an Objects column for every key but 'self'
CreateTables(objDict) ==
    [tables |-> TRUE,
     classes |-> [k \in 1..Len(objDict) |->
                     [label_property |-> objDict[k][1], column_name |-> ColName(k - 1),
                      class_name |-> objDict[k][2]]],
     columns |-> <<[name |-> "id", type |-> "INTEGER"], [name |-> "label", type |-> "TEXT"],
                   [name |-> "comment", type |-> "TEXT"]>>
                 \o [k \in 1..Len(NonSelf(objDict)) |->
                        [name |-> ColName(NonSelf(objDict)[k][1]),
                         type |-> CLASS_MAP(NonSelf(objDict)[k][3])]],
     objects |-> {}]

\* the position of a column name in a list of names, 0 when it is not there
ColumnIndex(names, name) ==
    IF \E k \in 1..Len(names) : names[k] = name
    THEN CHOOSE k \in 1..Len(names) : names[k] = name ELSE 0

\* cursor.execute(command, args): what sqlite3 raises before it touches a row
ExecuteError(db, cmd, args) ==
    IF cmd = NoCommand THEN "TypeError"
    ELSE IF ~db.tables
              \/ \E k \in 1..Len(cmd.columns) :
                     ColumnIndex([j \in 1..Len(db.columns) |-> db.columns[j].name],
                                 cmd.columns[k]) = 0
         THEN "OperationalError"
         ELSE IF Len(args) # cmd.bindings THEN "ProgrammingError" ELSE OK

\* SqliteFlatDb.insertObject: INSERT INTO Objects (id, label, comment, c01, ...)
\* VALUES (?, ...); a column the command does not name takes its default NULL
FlatDbInsertObject(st, args) ==
    LET cmd == st.INSERT_OBJECT
        err == ExecuteError(st.conn, cmd, args)
        row == [j \in 1..Len(st.conn.columns) |->
                   LET k == ColumnIndex(cmd.columns, st.conn.columns[j].name)
                   IN IF k = 0 THEN SqlNull ELSE args[k]]
    IN IF err # OK THEN [st EXCEPT !.exc = err]
       ELSE IF \E r \in st.conn.objects : r[1] = args[1]
            THEN [st EXCEPT !.exc = "IntegrityError"]
            ELSE [st EXCEPT !.conn.objects = @ \cup {row}]

FlatDbUpdateObjectEveryRow(st, args) ==
    LET cmd == st.UPDATE_OBJECT
        err == ExecuteError(st.conn, cmd, args)
        Set(r) == [j \in 1..Len(r) |->
                      LET k == ColumnIndex(cmd.columns, st.conn.columns[j].name)
                      IN IF k = 0 THEN r[j] ELSE args[k]]
    IN IF err # OK THEN [st EXCEPT !.exc = err]
       ELSE [st EXCEPT !.conn.objects = {Set(r) : r \in @}]

\* SqliteFlatDb.updateObject: UPDATE Objects SET label=?, comment=?, c01=?, ...
\* WHERE id=?
FlatDbUpdateObject(st, args) ==
    LET cmd == st.UPDATE_OBJECT
        err == ExecuteError(st.conn, cmd, args)
        Set(r) == [j \in 1..Len(r) |->
                      LET k == ColumnIndex(cmd.columns, st.conn.columns[j].name)
                      IN IF k = 0 THEN r[j] ELSE args[k]]
    IN IF err # OK THEN [st EXCEPT !.exc = err]
       ELSE [st EXCEPT !.conn.objects =
                 {IF r[1] = args[Len(args)] THEN Set(r) ELSE r : r \in @}]

\* SqliteFlatMapper.insert
FlatInsert(st, obj) ==
    LET st1 == IF st.doCreateTables
               THEN [st EXCEPT !.conn = CreateTables(GetObjDict(obj)),
                               !.disk = CreateTables(GetObjDict(obj)),
                               !.INSERT_OBJECT = SetupCommands(GetObjDict(obj)).INSERT_OBJECT,
                               !.UPDATE_OBJECT = SetupCommands(GetObjDict(obj)).UPDATE_OBJECT,
                               !.doCreateTables = FALSE]
               ELSE st
    IN FlatDbInsertObject(st1, <<obj.objId, SqlNull, SqlNull>> \o ObjValues(obj))

\* SqliteFlatMapper.updateTo
FlatUpdateTo(st, obj) ==
    LET st1 == IF st.INSERT_OBJECT = NoCommand
               THEN [st EXCEPT !.INSERT_OBJECT = SetupCommands(GetObjDict(obj)).INSERT_OBJECT,
                               !.UPDATE_OBJECT = SetupCommands(GetObjDict(obj)).UPDATE_OBJECT]
               ELSE st
    IN FlatDbUpdateObject(st1, <<SqlNull, SqlNull>> \o ObjValues(obj) \o <<obj.objId>>)

LoadObjDictFromTwo(st) ==
    IF ~st.conn.tables THEN [st EXCEPT !.exc = "OperationalError"]
    ELSE LET rs == st.conn.classes
             columnList == SelectSeq(rs, LAMBDA r : r.label_property # "self")
             self == SelectSeq(rs, LAMBDA r : r.label_property = "self")
         IN [st EXCEPT
                !.objTemplate = [objId |-> NoneId, cls |-> self[1].class_name,
                                 attrs |-> [k \in 1..Len(columnList) |->
                                     <<columnList[k].label_property, columnList[k].class_name,
                                       NoneOf(columnList[k].class_name)>>]],
                !.objColumns = [k \in 1..Len(columnList) |->
                                   <<k + 1, columnList[k].label_property>>]]

\* SqliteFlatMapper.__loadObjDict: the template and the columns of its attributes,
\* from the rows of Classes
LoadObjDict(st) ==
    IF ~st.conn.tables THEN [st EXCEPT !.exc = "OperationalError"]
    ELSE LET rs == st.conn.classes
             columnList == SelectSeq(rs, LAMBDA r : r.label_property # "self")
             self == SelectSeq(rs, LAMBDA r : r.label_property = "self")
             n == Len(rs) + 2
         IN [st EXCEPT
                !.objTemplate = [objId |-> NoneId, cls |-> self[1].class_name,
                                 attrs |-> [k \in 1..Len(columnList) |->
                                     <<columnList[k].label_property, columnList[k].class_name,
                                       NoneOf(columnList[k].class_name)>>]],
                !.objColumns = [k \in 1..(n - 3) |-> <<k + 2, columnList[k].label_property>>]]

\* obj.setAttributeValue(attrName, value) on a list of attributes
SetAttributeValue(attrs, attrName, cell) ==
    [k \in 1..Len(attrs) |->
        IF attrs[k][1] = attrName
        THEN <<attrs[k][1], attrs[k][2], ConvertValue(attrs[k][2], cell)>> ELSE attrs[k]]

RECURSIVE FillTemplate(_, _, _)
FillTemplate(attrs, objColumns, objRow) ==
    IF objColumns = <<>> THEN attrs
    ELSE FillTemplate(SetAttributeValue(attrs, Head(objColumns)[2],
                                        objRow[Head(objColumns)[1] + 1]),
                      Tail(objColumns), objRow)

\* SqliteFlatMapper.__objFromRow: the template takes the id and the values of the
\* row; objRow[c] is the cell c + 1 of the row
ObjFromRow(st, objRow) ==
    LET st1 == IF st.objTemplate = NoTemplate THEN LoadObjDict(st) ELSE st
    IN IF st1.exc # OK THEN st1
       ELSE IF \E k \in 1..Len(st1.objColumns) : st1.objColumns[k][1] + 1 > Len(objRow)
            THEN [st1 EXCEPT !.exc = "IndexError"]
            ELSE [st1 EXCEPT !.objTemplate =
                      [@ EXCEPT !.objId = objRow[1],
                                !.attrs = FillTemplate(@, st1.objColumns, objRow)]]

\* ORDER BY id
RECURSIVE OrderById(_)
OrderById(objRows) ==
    IF objRows = {} THEN <<>>
    ELSE LET r == CHOOSE x \in objRows : \A y \in objRows : x[1] <= y[1]
         IN <<r>> \o OrderById(objRows \ {r})

RECURSIVE ObjectsFromRowsNoClone(_, _, _, _)
ObjectsFromRowsNoClone(st, objRows, iterate, objs) ==
    IF st.exc # OK \/ objRows = <<>> THEN [objs |-> objs, st |-> st]
    ELSE LET st1 == ObjFromRow(st, Head(objRows))
         IN ObjectsFromRowsNoClone(st1, Tail(objRows), iterate,
                IF st1.exc # OK THEN objs
                ELSE Append(objs, [ref |-> "template", seen |-> st1.objTemplate,
                                   obj |-> st1.objTemplate]))

\* SqliteFlatMapper.__objectsFromRows: every row in turn fills the template; a
\* result is the template itself (iterate) or a clone of it taken at that moment,
\* with the values its reader sees when it gets it (seen) and the values the
\* reference shows (obj)
RECURSIVE ObjectsFromRows(_, _, _, _)
ObjectsFromRows(st, objRows, iterate, objs) ==
    IF st.exc # OK \/ objRows = <<>> THEN [objs |-> objs, st |-> st]
    ELSE LET st1 == ObjFromRow(st, Head(objRows))
         IN ObjectsFromRows(st1, Tail(objRows), iterate,
                IF st1.exc # OK THEN objs
                ELSE Append(objs, [ref |-> IF iterate THEN "template" ELSE "clone",
                                   seen |-> st1.objTemplate,
                                   obj |-> st1.objTemplate]))

\* SqliteFlatMapper.selectById: None (no result) or the template
FlatSelectById(st, objId) ==
    IF ~st.conn.tables THEN [objs |-> <<>>, st |-> [st EXCEPT !.exc = "OperationalError"]]
    ELSE ObjectsFromRows(st, OrderById({r \in st.conn.objects : r[1] = objId}), TRUE, <<>>)

\* SqliteFlatMapper.selectAll
FlatSelectAll(st, iterate) ==
    LET st1 == IF st.objTemplate = NoTemplate THEN LoadObjDict(st) ELSE st
    IN IF st1.exc # OK THEN [objs |-> <<>>, st |-> st1]
       ELSE ObjectsFromRows(st1, OrderById(st1.conn.objects), iterate, <<>>)

\* SqliteFlatMapper.selectBy(id=objId), in list mode
FlatSelectBy(st, objId) ==
    IF ~st.conn.tables THEN [objs |-> <<>>, st |-> [st EXCEPT !.exc = "OperationalError"]]
    ELSE ObjectsFromRows(st, OrderById({r \in st.conn.objects : r[1] = objId}), FALSE, <<>>)

\* SqliteFlatMapper.__init__ on a database file: the connection sees what was
\* committed; the template is loaded when the tables are there
FlatOpen(disk) ==
    LET st == [disk |-> disk, conn |-> disk, doCreateTables |-> ~disk.tables,
               INSERT_OBJECT |-> NoCommand, UPDATE_OBJECT |-> NoCommand,
               objTemplate |-> NoTemplate, objColumns |-> <<>>, exc |-> OK]
    IN IF st.doCreateTables THEN st ELSE LoadObjDict(st)

\* a new database file, a mapper open on it, nothing stored and nothing read
NewFlat ==
    [st |-> FlatOpen(NoTables), opens |-> 1, found |-> FALSE,
     items |-> {}, written |-> {}, updated |-> {}, writtenUpdated |-> {},
     held |-> <<>>, results |-> <<>>]

\* ------------------------------------------------- callers of the mapper
\* the Objects the callers start with; the Integers hold v
MapperStart(v) ==
    /\ heap = [h \in Handles |-> IF ClassOf(h) = "Integer"
                                  THEN [NewObject("Integer") EXCEPT !.value = v]
                                  ELSE NewObject(ClassOf(h))]
    /\ rows = <<>>
    /\ relations = <<>>
    /\ flat = NewFlat
    /\ mapper = NewMapper
    /\ last = [calls |-> 0, edits |-> 0, op |-> "none", arg |-> NoneId,
               exc |-> OK, result |-> NoneId, edited |-> FALSE,
               raised |-> FALSE]

MapperInit == MapperStart(1)

\* the state a call works on, and the state it leaves
Before == [heap |-> heap, rows |-> rows, mapper |-> mapper, relations |-> relations,
           exc |-> OK]

CalledUpTo(n, op, arg, st, result) ==
    /\ last.calls < n
    /\ last.exc # "NoReturn"
    /\ heap' = st.heap
    /\ rows' = st.rows
    /\ relations' = st.relations
    /\ mapper' = st.mapper
    /\ last' = [last EXCEPT !.calls = @ + 1, !.op = op, !.arg = arg,
                            !.exc = st.exc, !.result = result, !.edited = FALSE,
                            !.raised = @ \/ st.exc # OK]
    /\ UNCHANGED <<protocolVars, flat>>

Called(op, arg, st, result) == CalledUpTo(MaxCalls, op, arg, st, result)

Edited ==
    /\ last.edits < MaxEdits
    /\ last' = [last EXCEPT !.edits = @ + 1, !.edited = TRUE]
    /\ UNCHANGED <<rows, mapper, relations>>
    /\ UNCHANGED <<protocolVars, flat>>

\* a caller makes c an attribute of the composite p: setattr(p, key, c)
SetAttr(p, c) ==
    /\ heap[p].cls = "Object"
    /\ GetAttr(heap[p], KeyOf(c)) # c
    /\ heap' = [heap EXCEPT ![p].attrs = SetAttrIn(@, KeyOf(c), c)]
    /\ Edited

\* a caller points the Pointer p at t: p.set(t)
SetPointer(p, t) ==
    /\ heap[p].cls = "Pointer"
    /\ heap[p].value # t
    /\ heap' = [heap EXCEPT ![p].value = t]
    /\ Edited

\* SqliteMapper.insert of an object that has no id yet
Insert(h) ==
    /\ heap[h].objId = NoneId
    /\ Called("insert", h, MapperInsert(Before, h, <<>>, 1), NoneId)

\* Protocol._insertChild on a stored parent: setattr, then SqliteMapper.insertChild
InsertChildOf(p, c) ==
    /\ heap[p].cls = "Object"
    /\ heap[p].objId # NoneId
    /\ heap[c].objId = NoneId
    /\ Called("insertChild", p,
              InsertChild([Before EXCEPT !.heap[p].attrs = SetAttrIn(@, KeyOf(c), c)],
                          p, KeyOf(c), c, <<>>, 1),
              NoneId)

\* SqliteMapper.updateTo of a stored object
UpdateTo(h) ==
    /\ heap[h].objId # NoneId
    /\ Called("updateTo", h, MapperUpdateTo(Before, h), NoneId)

\* SqliteMapper.selectById
SelectById(objId) ==
    LET r == MapperSelectById(Before, objId)
    IN Called("selectById", objId, r.st, IF r.st.exc = OK THEN r.obj ELSE NoneId)

\* a new SqliteMapper is opened on the database
OpenMapper ==
    /\ mapper # NewMapper
    /\ mapper' = NewMapper
    /\ UNCHANGED <<heap, rows, relations, last>>
    /\ UNCHANGED <<protocolVars, flat>>

\* no Protocol is run while the mapper is exercised
ProtocolAtRest ==
    /\ params = <<>>
    /\ prot = [status |-> None, error |-> <<>>, isInteractive |-> FALSE,
               runMode |-> MODE_RESUME, stepsDone |-> 0, numberOfSteps |-> 0,
               lastStatus |-> None]
    /\ steps = <<>> /\ stepsFile = <<>> /\ files = {}
    /\ pc = "idle" /\ cur = 1 /\ runs = 0 /\ startIndex = -1
    /\ executed = <<>> /\ prevAtStart = <<>> /\ filesAtStart = {}
    /\ modeAtStart = MODE_RESUME /\ validation = <<>> /\ lastExc = NoExc

InitMapper == ProtocolAtRest /\ \E v \in 1..MaxVal : MapperStart(v)

NextMapper ==
    \/ \E p \in Handles, c \in Handles : SetAttr(p, c)
    \/ \E p \in Handles : \E t \in Handles \ {p} : SetPointer(p, t)
    \/ \E h \in Handles : Insert(h)
    \/ \E p \in Handles, c \in Handles : InsertChildOf(p, c)
    \/ \E h \in Handles : UpdateTo(h)
    \/ \E objId \in 1..Len(rows) : SelectById(objId)
    \/ OpenMapper

SpecMapper == InitMapper /\ [][NextMapper]_vars

\* ------------------------------------- callers that delete and relate Objects
\* The actions take the number n of calls that are explored.
InsertOf(n, h) ==
    /\ heap[h].objId = NoneId
    /\ CalledUpTo(n, "insert", h, MapperInsert(Before, h, <<>>, 1), NoneId)

SelectByIdOf(n, objId) ==
    LET r == MapperSelectById(Before, objId)
    IN CalledUpTo(n, "selectById", objId, r.st, IF r.st.exc = OK THEN r.obj ELSE NoneId)

\* SqliteMapper.delete of an object that was stored
Delete(n, h) ==
    /\ heap[h].objId # NoneId
    /\ CalledUpTo(n, "delete", h, MapperDelete(Before, h), NoneId)

\* Protocol._defineRelation: insertRelation with the Protocol as creator
Relate(n, creator, parent, child) ==
    /\ heap[creator].cls = "Object"
    /\ CalledUpTo(n, "insertRelation", <<creator, parent, child>>,
                  InsertRelation(Before, "relation_source", creator, parent, child), <<>>)

\* getRelationChilds, getRelationParents or getRelationsByCreator
\* (Protocol.getRelations) of an Object
Relations(n, op, h) ==
    LET r == IF op = "getRelationChilds" THEN GetRelationChilds(Before, "relation_source", h)
             ELSE IF op = "getRelationParents"
                  THEN GetRelationParents(Before, "relation_source", h)
                  ELSE [st |-> Before, objs |-> GetRelationsByCreator(Before, h)]
    IN CalledUpTo(n, op, <<h>>, r.st, r.objs)

\* Protocol._defineOutputs(key=c) with a new Object c: _deleteChild of the new
\* value when the Protocol has the attribute already, setattr and _insertChild
\* (mapper.insertChild when the Protocol is stored), and the key recorded in
\* _outputs
DefineOutputs(n, p, key, c) ==
    LET st1 == IF GetAttr(heap[p], key) # NoneId THEN MapperDelete(Before, c) ELSE Before
        st2 == [st1 EXCEPT !.heap[p].attrs = SetAttrIn(@, key, c)]
        st3 == IF st1.exc # OK THEN st1
               ELSE IF heap[p].objId # NoneId THEN InsertChild(st2, p, key, c, <<>>, 1)
               ELSE st2
        st4 == IF st3.exc # OK THEN st3
               ELSE [st3 EXCEPT !.heap[p].outputs =
                         IF \E k \in 1..Len(@) : @[k] = key THEN @ ELSE Append(@, key)]
    IN /\ heap[p].cls = "Object"
       /\ heap[c].cls # "Pointer"
       /\ heap[c].objId = NoneId
       /\ p # c
       /\ CalledUpTo(n, "defineOutputs", <<p, c>>, st4, <<>>)

\* rows that sessions before this one inserted and deleted: the ids up to
\* FirstFreeId - 1 are used
SkipIds ==
    /\ Len(rows) < FirstFreeId - 1
    /\ rows' = rows \o [j \in 1..(FirstFreeId - 1 - Len(rows)) |-> DeletedRow]
    /\ UNCHANGED <<heap, mapper, relations, last>>
    /\ UNCHANGED <<protocolVars, flat>>

\* another writer, one that does not enforce the foreign keys, deletes the row
\* of a parent and leaves the rows below it; this is explored once
ExternalDelete(objId) ==
    /\ \A j \in 1..Len(rows) : rows[j].id # NoneId
    /\ HasRow(rows, objId)
    /\ \E j \in 1..Len(rows) : rows[j].parent_id = objId
    /\ rows' = [rows EXCEPT ![objId] = DeletedRow]
    /\ UNCHANGED <<heap, mapper, relations, last>>
    /\ UNCHANGED <<protocolVars, flat>>

\* no Protocol runs, the database is new and the Integers hold 1
InitStore == ProtocolAtRest /\ MapperInit

\* Objects are stored and deleted
NextDelete ==
    \/ \E p \in Handles, c \in Handles : SetAttr(p, c)
    \/ \E h \in Handles : InsertOf(MaxStoreCalls, h)
    \/ \E h \in Handles : Delete(MaxStoreCalls, h)
    \/ SkipIds

SpecDelete == InitStore /\ [][NextDelete]_vars

\* Objects are stored and read from a database another writer damages
NextCorrupt ==
    \/ \E p \in Handles, c \in Handles : SetAttr(p, c)
    \/ \E h \in Handles : InsertOf(MaxStoreCalls, h)
    \/ \E objId \in 1..Len(rows) : SelectByIdOf(MaxStoreCalls, objId)
    \/ \E objId \in 1..Len(rows) : ExternalDelete(objId)

SpecCorrupt == InitStore /\ [][NextCorrupt]_vars

\* Objects are stored, related and deleted
NextRelations ==
    \/ \E h \in Handles : InsertOf(MaxRelCalls, h)
    \/ \E creator \in Handles, parent \in Handles, child \in Handles :
           Relate(MaxRelCalls, creator, parent, child)
    \/ \E h \in Handles :
           \E op \in {"getRelationChilds", "getRelationParents", "getRelationsByCreator"} :
               Relations(MaxRelCalls, op, h)
    \/ \E h \in Handles : Delete(MaxRelCalls, h)

SpecRelations == InitStore /\ [][NextRelations]_vars

\* a Protocol with input Pointers is stored and defines its outputs
NextOutputs ==
    \/ \E p \in Handles, c \in Handles : SetAttr(p, c)
    \/ \E p \in Handles : \E t \in Handles \ {p} : SetPointer(p, t)
    \/ \E h \in Handles : InsertOf(MaxCalls, h)
    \/ \E p \in Handles, c \in Handles : DefineOutputs(MaxCalls, p, KeyOf(c), c)

SpecOutputs == InitStore /\ [][NextOutputs]_vars

\* ---------------------------------------------- callers of the flat mapper
\* the items a caller inserts and updates: Items of one shape, and items of
\* another class with an attribute of another name or with one attribute less
Items ==
    {[objId |-> i, cls |-> "Item", attrs |-> <<<<"x", "Integer", v>>, <<"flag", "Boolean", b>>>>] :
        i \in 1..MaxItems, v \in 1..MaxVal, b \in {"True", "False"}}

OtherItems ==
    {[objId |-> i, cls |-> "Other", attrs |-> <<<<"x", "Integer", v>>, <<"done", "Boolean", b>>>>] :
        i \in 1..MaxItems, v \in 1..MaxVal, b \in {"True", "False"}}
    \cup {[objId |-> i, cls |-> "Short", attrs |-> <<<<"x", "Integer", v>>>>] :
              i \in 1..MaxItems, v \in 1..MaxVal}

\* what the caller's references show once the template is as the call left it:
\* obj = self._objTemplate makes every result that is not a clone the template
Refresh(results, objTemplate) ==
    [k \in 1..Len(results) |->
        IF results[k].ref = "template" THEN [results[k] EXCEPT !.obj = objTemplate]
        ELSE results[k]]

\* a call of the flat mapper, of the n explored, returns or raises: the caller
\* keeps the results of the call before; items are the items it stored and
\* updated the ids of those it updated
FlatCalled(n, op, arg, st, items, updated, result) ==
    /\ last.calls < n
    /\ flat' = [flat EXCEPT !.st = [st EXCEPT !.exc = OK], !.items = items,
                            !.updated = updated,
                            !.held = Refresh(flat.results, st.objTemplate),
                            !.results = Refresh(result, st.objTemplate)]
    /\ last' = [last EXCEPT !.calls = @ + 1, !.op = op, !.arg = arg,
                            !.exc = st.exc, !.result = NoneId, !.edited = FALSE,
                            !.raised = @ \/ st.exc # OK]
    /\ UNCHANGED <<heap, rows, mapper, relations>>
    /\ UNCHANGED protocolVars

FlatInsertOf(n, obj) ==
    LET st == FlatInsert(flat.st, obj)
    IN FlatCalled(n, "insert", obj, st,
                  IF st.exc = OK THEN flat.items \cup {obj} ELSE flat.items,
                  flat.updated, <<>>)

FlatUpdateToOf(n, obj) ==
    LET st == FlatUpdateTo(flat.st, obj)
        stored == st.exc = OK /\ \E o \in flat.items : o.objId = obj.objId
    IN FlatCalled(n, "updateTo", obj, st,
                  IF stored THEN {o \in flat.items : o.objId # obj.objId} \cup {obj}
                  ELSE flat.items,
                  IF stored THEN flat.updated \cup {obj.objId} ELSE flat.updated,
                  <<>>)

\* selectById(arg), selectBy(id=arg), or for obj in selectAll(iterate=arg): the
\* caller sees every result
FlatRead(n, op, arg) ==
    LET r == IF op = "selectById" THEN FlatSelectById(flat.st, arg)
             ELSE IF op = "selectBy" THEN FlatSelectBy(flat.st, arg)
             ELSE FlatSelectAll(flat.st, arg)
    IN FlatCalled(n, op, arg, r.st, flat.items, flat.updated, r.objs)

\* SqliteFlatMapper.commit: what the connection holds is in the file
FlatCommit ==
    /\ flat.st.conn # flat.st.disk
    /\ flat' = [flat EXCEPT !.st.disk = flat.st.conn, !.written = flat.items,
                            !.writtenUpdated = flat.updated]
    /\ UNCHANGED <<heap, rows, mapper, relations, last>>
    /\ UNCHANGED protocolVars

\* SqliteFlatMapper.close and a new SqliteFlatMapper on the same file: what was
\* not committed is gone, and so are the old mapper's results; found is whether
\* __init__ found the tables
FlatReopen ==
    /\ flat.opens < MaxOpens
    /\ flat' = [st |-> FlatOpen(flat.st.disk), opens |-> flat.opens + 1,
                found |-> flat.st.disk.tables,
                items |-> flat.written, written |-> flat.written,
                updated |-> flat.writtenUpdated, writtenUpdated |-> flat.writtenUpdated,
                held |-> <<>>, results |-> <<>>]
    /\ UNCHANGED <<heap, rows, mapper, relations, last>>
    /\ UNCHANGED protocolVars

\* a Set of Items is stored, updated, reopened and read
NextFlat ==
    \/ \E obj \in Items : FlatInsertOf(MaxFlatCalls, obj)
    \/ \E obj \in Items : FlatUpdateToOf(MaxFlatCalls, obj)
    \/ \E objId \in 1..MaxItems : FlatRead(MaxFlatCalls, "selectById", objId)
    \/ \E iterate \in BOOLEAN : FlatRead(MaxFlatCalls, "selectAll", iterate)
    \/ \E objId \in 1..MaxItems : FlatRead(MaxFlatCalls, "selectBy", objId)
    \/ FlatCommit
    \/ FlatReopen

SpecFlat == InitStore /\ [][NextFlat]_vars

\* items of other shapes are passed to the mapper of a Set
NextShapes ==
    \/ \E obj \in Items \cup OtherItems : FlatInsertOf(MaxShapeCalls, obj)
    \/ \E obj \in Items \cup OtherItems : FlatUpdateToOf(MaxShapeCalls, obj)
    \/ \E objId \in 1..MaxItems : FlatRead(MaxShapeCalls, "selectById", objId)
    \/ FlatReopen

SpecShapes == InitStore /\ [][NextShapes]_vars

\* ------------------------------------------------------------ environment
\* The step definitions a protocol can have: a function name, one argument, the
\* isInteractive keyword and, from the third step on, optionally an explicit
\* prerequisites=[1] instead of the default (the previous step).
StepDefs(i) ==
    {[funcName |-> f, args |-> a, isInteractive |-> (f = "pick"),
      hasPrerequisites |-> h, prerequisites |-> IF h THEN <<1>> ELSE <<>>] :
        f \in FuncNames, a \in 1..MaxArg, h \in IF i >= 3 THEN BOOLEAN ELSE {FALSE}}

\* The protocols the exploration starts from: every argument is 1
InitialProtocols ==
    UNION {{ds \in [1..n -> UNION {StepDefs(i) : i \in 1..n}] :
                \A i \in 1..n : ds[i] \in StepDefs(i) /\ ds[i].args = 1} : n \in 1..MaxSteps}

\* What the user may do to the parameters between two runs: nothing, change the
\* argument of one step, drop the last step, or add a step.
Edits(ds) ==
    {ds}
    \cup {[ds EXCEPT ![i].args = a] : i \in 1..Len(ds), a \in 1..MaxArg}
    \cup (IF Len(ds) > 1 THEN {SubSeq(ds, 1, Len(ds) - 1)} ELSE {})
    \cup (IF Len(ds) < MaxSteps
          THEN {Append(ds, d) : d \in {e \in StepDefs(Len(ds) + 1) : e.args = 1}}
          ELSE {})

\* What the function bound to the step at 1-based index i can do when called: raise,
\* or return its result paths.  "f" returns the one path it is meant to write (and
\* has written it or not); "pick" returns None.
BodyOutcomes(i, funcName) ==
    (IF funcName = "f"
     THEN {[exc |-> NoExc, resultFiles |-> <<PathOf(i)>>, creates |-> {PathOf(i)}],
           [exc |-> NoExc, resultFiles |-> <<PathOf(i)>>, creates |-> {}]}
     ELSE {[exc |-> NoExc, resultFiles |-> <<>>, creates |-> {}]})
    \cup {[exc |-> Exc("Exception", <<"boom">>), resultFiles |-> <<>>, creates |-> {}],
          [exc |-> Exc("BaseException", <<"interrupt">>), resultFiles |-> <<>>, creates |-> {}]}

\* runProtocolMain sets a steps executor before it calls run()
ExecutorIsSet == TRUE

\* What validate() can return
ValidationErrors == {<<>>, <<"*Input* cannot be EMPTY.">>}

Idle == pc \in {"idle", "returned", "crashed"}

\* ------------------------------------------------------------------ state
Init ==
    /\ params \in InitialProtocols
    /\ prot = [status |-> None, error |-> <<>>, isInteractive |-> FALSE,
               runMode |-> MODE_RESUME, stepsDone |-> 0, numberOfSteps |-> 0,
               lastStatus |-> None]
    /\ steps = <<>>
    /\ stepsFile = <<>>
    /\ files = {}
    /\ pc = "idle"
    /\ cur = 1
    /\ runs = 0
    /\ startIndex = -1
    /\ executed = <<>>
    /\ prevAtStart = <<>>
    /\ filesAtStart = {}
    /\ modeAtStart = MODE_RESUME
    /\ validation = <<>>
    /\ lastExc = NoExc
    /\ MapperInit

\* ---------------------------------------------------------------- actions
\* Protocol.run in a fresh process, from Step.run's setRunning to the call of
\* the executor's runSteps; when _run's checks raise, the whole run.
Run(newParams, hasExecutor, errors) ==
    /\ UNCHANGED mapperVars
    /\ Idle
    /\ runs < MaxRuns
    /\ runs' = runs + 1
    /\ params' = newParams
    /\ prevAtStart' = stepsFile
    /\ filesAtStart' = files
    /\ modeAtStart' = prot.runMode
    /\ validation' = errors
    /\ lastExc' = NoExc
    /\ executed' = <<>>
    /\ cur' = 1
    /\ files' = files
    /\ LET p0 == SetRunning(prot)
           chk == ProtocolRunChecks(p0, hasExecutor, errors)
       IN IF chk.kind # "none"
          THEN /\ prot' = StepRun([exc |-> chk, step |-> p0]).step
               /\ pc' = "returned"
               /\ steps' = <<>>
               /\ startIndex' = -1
               /\ stepsFile' = stepsFile
          ELSE LET found == FindStartingStep(p0.runMode, InsertAllSteps(newParams),
                                             stepsFile, files)
                   stored == StoreSteps(p0, found.steps, stepsFile)
               IN /\ prot' = RunStepsBegin(stored.prot, found.steps, found.index)
                  /\ steps' = found.steps
                  /\ stepsFile' = stored.stored
                  /\ startIndex' = found.index
                  /\ pc' = "steps"

\* the executor's loop passes over a step that is already finished
ExecutorSkip ==
    /\ UNCHANGED mapperVars
    /\ pc = "steps"
    /\ cur <= Len(steps)
    /\ IsFinished(steps[cur])
    /\ cur' = cur + 1
    /\ UNCHANGED <<params, prot, steps, stepsFile, files, pc, runs,
                   startIndex, executed, prevAtStart, filesAtStart, modeAtStart, validation, lastExc>>

\* the prerequisites of the step at 1-based position i are all finished
PrerequisitesDone(ss, i) ==
    \A k \in 1..Len(ss[i].prerequisites) :
        LET q == ss[i].prerequisites[k] IN q \in 1..Len(ss) /\ IsFinished(ss[q])

\* the executor starts the next step: its setRunning, Protocol._stepStarted and the
\* setRunning that opens Step.run; at pc = "body" the step is inside self._run()
StepStarted ==
    /\ UNCHANGED mapperVars
    /\ pc = "steps"
    /\ cur <= Len(steps)
    /\ ~IsFinished(steps[cur])
    /\ PrerequisitesDone(steps, cur)
    /\ stepsFile' = UpdateStep(stepsFile, cur, SetRunning(steps[cur]))
    /\ steps' = [steps EXCEPT ![cur] = SetRunning(SetRunning(@))]
    /\ pc' = "body"
    /\ UNCHANGED <<params, prot, files, cur, runs,
                   startIndex, executed, prevAtStart, filesAtStart, modeAtStart, validation, lastExc>>

\* Step.run of the started step from the return of self._run(), and
\* Protocol._stepFinished
StepBody(out) ==
    /\ UNCHANGED mapperVars
    /\ pc = "body"
    /\ files' = files \cup out.creates
    /\ executed' = Append(executed, cur - 1)
    /\ LET ran == FunctionStepRun(steps[cur], out, files')
           r == StepRun(ran)
       IN /\ steps' = [steps EXCEPT ![cur] = r.step]
          /\ lastExc' = ran.exc
          /\ IF r.raised
             THEN /\ pc' = "crashed"
                  /\ UNCHANGED <<prot, stepsFile, cur>>
             ELSE LET fin == StepFinished(prot, r.step)
                  IN /\ prot' = fin.prot
                     /\ stepsFile' = UpdateStep(stepsFile, cur, r.step)
                     /\ pc' = IF fin.doContinue THEN "steps" ELSE "stopped"
                     /\ cur' = IF fin.doContinue THEN cur + 1 ELSE cur
    /\ UNCHANGED <<params, runs, startIndex, prevAtStart, filesAtStart, modeAtStart, validation>>

\* the executor returned: the end of _runSteps, of Step.run and of Protocol.run
RunReturn ==
    /\ UNCHANGED mapperVars
    /\ \/ pc = "stopped"
       \/ pc = "steps" /\ cur > Len(steps)
    /\ prot' = StepRun([exc |-> NoExc, step |-> RunStepsEnd(prot)]).step
    /\ pc' = "returned"
    /\ UNCHANGED <<params, steps, stepsFile, files, cur, runs,
                   startIndex, executed, prevAtStart, filesAtStart, modeAtStart, validation, lastExc>>

\* a result file is removed by someone else between two runs
DeleteFile(f) ==
    /\ UNCHANGED mapperVars
    /\ Idle
    /\ runs < MaxRuns
    /\ f \in files
    /\ files' = files \ {f}
    /\ pc' = "idle"
    /\ UNCHANGED <<params, prot, steps, stepsFile, cur, runs,
                   startIndex, executed, prevAtStart, filesAtStart, modeAtStart, validation, lastExc>>

\* the user picks the run mode of the next run
SetRunMode(m) ==
    /\ UNCHANGED mapperVars
    /\ Idle
    /\ runs < MaxRuns
    /\ prot.runMode # m
    /\ prot' = [prot EXCEPT !.runMode = m]
    /\ pc' = "idle"
    /\ UNCHANGED <<params, steps, stepsFile, files, cur, runs,
                   startIndex, executed, prevAtStart, filesAtStart, modeAtStart, validation, lastExc>>

\* Protocol.continueFromInteractive
ContinueFromInteractive ==
    /\ UNCHANGED mapperVars
    /\ Idle
    /\ runs < MaxRuns
    /\ stepsFile' = PromoteFirstInteractive(stepsFile)
    /\ pc' = "idle"
    /\ UNCHANGED <<params, prot, steps, files, cur, runs,
                   startIndex, executed, prevAtStart, filesAtStart, modeAtStart, validation, lastExc>>

\* an external actor marks a persisted running or interactive step as aborted
AbortStep(i) ==
    /\ UNCHANGED mapperVars
    /\ Idle
    /\ runs < MaxRuns
    /\ i \in 1..Len(stepsFile)
    /\ GetStatus(stepsFile[i]) \in {STATUS_RUNNING, STATUS_INTERACTIVE}
    /\ stepsFile' = [stepsFile EXCEPT ![i] = SetAborted(@)]
    /\ pc' = "idle"
    /\ UNCHANGED <<params, prot, steps, files, cur, runs,
                   startIndex, executed, prevAtStart, filesAtStart, modeAtStart, validation, lastExc>>

Next ==
    \/ \E ds \in (IF runs = 0 THEN {params} ELSE Edits(params)),
          errs \in ValidationErrors :
           Run(ds, ExecutorIsSet, errs)
    \/ ExecutorSkip
    \/ StepStarted
    \/ pc = "body" /\ \E out \in BodyOutcomes(cur, steps[cur].funcName) : StepBody(out)
    \/ RunReturn
    \/ \E f \in Paths : DeleteFile(f)
    \/ \E m \in {MODE_RESUME, MODE_RESTART} : SetRunMode(m)
    \/ ContinueFromInteractive
    \/ \E i \in 1..MaxSteps : AbortStep(i)

Spec == Init /\ [][Next]_vars

\* Step.setAborted applied by another thread to the step whose body is executing
AbortRunningStep ==
    /\ UNCHANGED mapperVars
    /\ pc = "body"
    /\ steps[cur].status = STATUS_RUNNING
    /\ steps' = [steps EXCEPT ![cur] = SetAborted(@)]
    /\ UNCHANGED <<params, prot, stepsFile, files, pc, cur, runs,
                   startIndex, executed, prevAtStart, filesAtStart, modeAtStart, validation, lastExc>>

\* the runs of Spec in which, in addition, running steps can be aborted
NextAbort ==
    \/ \E ds \in (IF runs = 0 THEN {params} ELSE Edits(params)),
          errs \in ValidationErrors :
           Run(ds, ExecutorIsSet, errs)
    \/ ExecutorSkip
    \/ StepStarted
    \/ pc = "body" /\ \E out \in BodyOutcomes(cur, steps[cur].funcName) : StepBody(out)
    \/ RunReturn
    \/ \E f \in Paths : DeleteFile(f)
    \/ \E m \in {MODE_RESUME, MODE_RESTART} : SetRunMode(m)
    \/ ContinueFromInteractive
    \/ \E i \in 1..MaxSteps : AbortStep(i)
    \/ AbortRunningStep

SpecAbort == Init /\ [][NextAbort]_vars

\* ------------------------------------------------------------------ claims
\* The statements below speak of the current run (or, between runs, of the last one)
\* through the history variables; positions are 0-based as in the code.

FreshSteps == InsertAllSteps(params)

Executed == {executed[i] : i \in 1..Len(executed)}

\* the run got as far as computing a resume index
ReachedSteps == startIndex >= 0

Resumed == ReachedSteps /\ modeAtStart = MODE_RESUME

Same(a, b) == a.funcName = b.funcName /\ a.argsStr = b.argsStr

\* a result file the persisted step recorded did not exist when the run began
RecordedFilesMissing(s) ==
    /\ s.resultFiles # <<>>
    /\ \E k \in 1..Len(s.resultFiles[2]) : s.resultFiles[2][k] \notin filesAtStart

\* part occurs in whole as a contiguous piece
Contains(whole, part) ==
    \E o \in 0..(Len(whole) - Len(part)) : SubSeq(whole, o + 1, o + Len(part)) = part

\* the step whose body was executed last in this run
LastStep == steps[executed[Len(executed)] + 1]

JustStored == pc = "steps" /\ cur = 1

Unchanged ==
    /\ Len(prevAtStart) = Len(FreshSteps)
    /\ \A i \in 1..Len(FreshSteps) : Same(FreshSteps[i], prevAtStart[i])

\* C1: after a run that left every step FINISHED, a resume run with the same step
\* list and all recorded result files present computes a resume index equal to the
\* number of steps and executes no step body.
C1_IdempotentResume ==
    (/\ Resumed
     /\ Unchanged
     /\ \A i \in 1..Len(prevAtStart) :
            /\ prevAtStart[i].status = STATUS_FINISHED
            /\ ~RecordedFilesMissing(prevAtStart[i]))
    => startIndex = Len(FreshSteps) /\ executed = <<>>

C1_Witness ==
    /\ Resumed /\ Unchanged /\ pc = "returned" /\ Len(FreshSteps) >= 2
    /\ \A i \in 1..Len(prevAtStart) :
           /\ prevAtStart[i].status = STATUS_FINISHED
           /\ ~RecordedFilesMissing(prevAtStart[i])
    /\ \E i \in 1..Len(prevAtStart) : prevAtStart[i].resultFiles # <<>>
    /\ startIndex = Len(FreshSteps)

\* the positions of the shorter list at which the walk must stop
RedoPositions ==
    {i \in 0..(IF Len(FreshSteps) <= Len(prevAtStart)
               THEN Len(FreshSteps) ELSE Len(prevAtStart)) - 1 :
        \/ prevAtStart[i + 1].status # STATUS_FINISHED
        \/ ~Same(FreshSteps[i + 1], prevAtStart[i + 1])
        \/ RecordedFilesMissing(prevAtStart[i + 1])}

\* C2: in resume mode the resume index is the least position of the shorter list at
\* which the persisted step is not FINISHED, differs from the new step in function
\* name or serialized arguments, or misses a recorded result file; with no such
\* position it is the length of the shorter list.
C2_LeastRedoPosition ==
    Resumed =>
        IF RedoPositions = {}
        THEN startIndex = (IF Len(FreshSteps) <= Len(prevAtStart)
                           THEN Len(FreshSteps) ELSE Len(prevAtStart))
        ELSE startIndex \in RedoPositions /\ \A j \in RedoPositions : startIndex <= j

\* N >= 1 unchanged finished steps followed by a step whose arguments changed
C2_Witness ==
    /\ Resumed
    /\ startIndex >= 1
    /\ startIndex < Len(FreshSteps) /\ startIndex < Len(prevAtStart)
    /\ prevAtStart[startIndex + 1].status = STATUS_FINISHED
    /\ ~RecordedFilesMissing(prevAtStart[startIndex + 1])
    /\ FreshSteps[startIndex + 1].funcName = prevAtStart[startIndex + 1].funcName
    /\ FreshSteps[startIndex + 1].argsStr # prevAtStart[startIndex + 1].argsStr

\* C3: once the resume index r is computed, every step before r carries the
\* persisted state of its predecessor (FINISHED) and is not executed in the run,
\* every step from r on starts the run not FINISHED, and the first body executed
\* is the one at r.
C3_ExecutionBeginsAtResumePoint ==
    ReachedSteps =>
        /\ \A i \in 0..(startIndex - 1) :
               /\ steps[i + 1] = prevAtStart[i + 1]
               /\ steps[i + 1].status = STATUS_FINISHED
               /\ i \notin Executed
        /\ JustStored =>
               \A i \in startIndex..(Len(steps) - 1) : steps[i + 1].status # STATUS_FINISHED
        /\ executed # <<>> => executed[1] = startIndex

C3_Witness ==
    /\ ReachedSteps /\ pc = "returned"
    /\ startIndex >= 1 /\ startIndex < Len(steps)
    /\ Len(executed) >= 2 /\ executed[1] = startIndex

\* the persisted step at k is FINISHED and equal to the new one, but a result file
\* it recorded was gone when the resume run began
Stale(k) ==
    /\ Resumed
    /\ k < Len(prevAtStart) /\ k < Len(FreshSteps)
    /\ prevAtStart[k + 1].status = STATUS_FINISHED
    /\ Same(FreshSteps[k + 1], prevAtStart[k + 1])
    /\ RecordedFilesMissing(prevAtStart[k + 1])

\* C4 as stated: with a recorded result file of the finished, unchanged step k gone,
\* the resume index is at most k and the body of step k is executed in that run.
C4_AsStated ==
    \A k \in 0..(MaxSteps - 1) :
        Stale(k) => /\ startIndex <= k
                    /\ pc = "returned" => k \in Executed

\* C4 amended: the resume index is at most k, step k starts the run not FINISHED, and
\* its body is executed in that run unless the run stops at an earlier re-executed
\* step (one that fails or pauses as interactive).
C4_StaleStepIsRedone ==
    \A k \in 0..(MaxSteps - 1) :
        Stale(k) => /\ startIndex <= k
                    /\ JustStored => steps[k + 1].status # STATUS_FINISHED
                    /\ pc = "returned" =>
                           \/ k \in Executed
                           \/ \E j \in Executed :
                                  /\ j < k
                                  /\ steps[j + 1].status \in {STATUS_FAILED, STATUS_INTERACTIVE}

C4_Witness ==
    \E k \in 1..(MaxSteps - 1) :
        Stale(k) /\ startIndex = k /\ pc = "returned" /\ k \in Executed

\* the protocol of the scenario: [s1, s2(prerequisite s1), s3(prerequisite s1)]
Scenario ==
    /\ Len(FreshSteps) = 3
    /\ FreshSteps[1].prerequisites = <<>>
    /\ FreshSteps[2].prerequisites = <<1>>
    /\ FreshSteps[3].prerequisites = <<1>>

\* its resume run after a run that ended with s1 FINISHED and s2 FAILED
ScenarioResume ==
    /\ Scenario /\ Resumed /\ Unchanged
    /\ prevAtStart[1].status = STATUS_FINISHED
    /\ ~RecordedFilesMissing(prevAtStart[1])
    /\ prevAtStart[2].status = STATUS_FAILED

\* in no run of the scenario's protocol is s3 running while s1 is not FINISHED
S3AfterS1 == (Scenario /\ pc = "body" /\ cur = 3) => steps[1].status = STATUS_FINISHED

C6_RestartDiscardsPersistedSteps ==
    (ReachedSteps /\ modeAtStart = MODE_RESTART) =>
        /\ startIndex = 0
        /\ JustStored => steps = FreshSteps /\ stepsFile = FreshSteps

\* a restart over a persisted list whose first step a resume would have kept
C6_Witness ==
    /\ ReachedSteps /\ modeAtStart = MODE_RESTART /\ JustStored
    /\ Len(prevAtStart) >= 2 /\ Len(FreshSteps) >= 2
    /\ prevAtStart[1].status = STATUS_FINISHED
    /\ Same(FreshSteps[1], prevAtStart[1])
    /\ ~RecordedFilesMissing(prevAtStart[1])

\* C7: when the finished callback gets a FAILED step, the Protocol becomes FAILED with
\* a message containing the step's message, no further step is started, and the
\* Protocol is FAILED when run() returns.
C7_FailedStepFailsProtocol ==
    \A i \in 1..Len(steps) :
        (i - 1 \in Executed /\ steps[i].status = STATUS_FAILED) =>
            /\ prot.status = STATUS_FAILED
            /\ steps[i].error # <<>>
            /\ Contains(prot.error, steps[i].error)
            /\ pc \in {"stopped", "returned", "idle"}
            /\ executed[Len(executed)] = i - 1
            /\ \A j \in (i + 1)..Len(steps) : steps[j].status = None

C7_Witness ==
    /\ pc = "returned" /\ prot.status = STATUS_FAILED
    /\ \E i \in 1..(Len(steps) - 1) :
           /\ i - 1 \in Executed
           /\ steps[i].status = STATUS_FAILED
           /\ steps[i].error = <<"boom">>

\* C8 as stated: whatever exception leaves a step's body, Step.run returns normally
\* with the step FAILED and its message the exception's message.
C8_AsStated ==
    (executed # <<>> /\ lastExc.kind # "none") =>
        /\ pc # "crashed"
        /\ LastStep.status = STATUS_FAILED
        /\ LastStep.error = lastExc.msg

\* C8 amended: for an exception that is an instance of Exception, Step.run returns
\* normally with the step FAILED and its message the exception's message.
C8_ExceptionBecomesFailed ==
    (executed # <<>> /\ lastExc.kind = "Exception") =>
        /\ pc # "crashed"
        /\ LastStep.status = STATUS_FAILED
        /\ LastStep.error = lastExc.msg

C8_Witness ==
    /\ executed # <<>> /\ pc = "stopped"
    /\ lastExc = Exc("Exception", <<"boom">>)
    /\ LastStep.status = STATUS_FAILED

\* C9: when validate() returns errors, run() executes no step body, never reaches the
\* executor, leaves the persisted step list as it was, and ends FAILED with a message
\* carrying the validation messages.
C9_ValidationBlocksRun ==
    (runs >= 1 /\ validation # <<>>) =>
        /\ pc \in {"returned", "idle"}
        /\ executed = <<>>
        /\ ~ReachedSteps
        /\ pc = "returned" =>
               /\ stepsFile = prevAtStart
               /\ prot.status = STATUS_FAILED
               /\ Contains(prot.error, validation)

C9_Witness ==
    /\ runs = 2 /\ validation # <<>> /\ pc = "returned"
    /\ stepsFile # <<>> /\ stepsFile[1].status = STATUS_FINISHED
    /\ prot.status = STATUS_FAILED

\* C10: when an interactive step's body completes without exception, the step is
\* INTERACTIVE, no later step is started in the run, the Protocol's error message
\* stays empty, and the Protocol is INTERACTIVE when run() returns.
C10_InteractiveStepPausesRun ==
    (executed # <<>> /\ LastStep.isInteractive /\ lastExc.kind = "none") =>
        /\ LastStep.status = STATUS_INTERACTIVE
        /\ pc \in {"stopped", "returned", "idle"}
        /\ \A j \in (executed[Len(executed)] + 2)..Len(steps) : steps[j].status = None
        /\ prot.error = <<>>
        /\ pc = "returned" => prot.status = STATUS_INTERACTIVE

C10_Witness ==
    /\ pc = "returned" /\ prot.status = STATUS_INTERACTIVE
    /\ Len(executed) >= 2
    /\ LastStep.isInteractive /\ LastStep.status = STATUS_INTERACTIVE
    /\ executed[Len(executed)] + 1 < Len(steps)

\* the persisted step at 1-based position i goes from INTERACTIVE to FINISHED
Promoted(i) ==
    /\ i <= Len(stepsFile) /\ stepsFile[i].status = STATUS_INTERACTIVE
    /\ i <= Len(stepsFile') /\ stepsFile'[i].status = STATUS_FINISHED

\* the in-memory step at 1-based position i becomes INTERACTIVE
BecomesInteractive(i) ==
    /\ i <= Len(steps') /\ steps'[i].status = STATUS_INTERACTIVE
    /\ ~(i <= Len(steps) /\ steps[i].status = STATUS_INTERACTIVE)

\* C11: a step whose status is INTERACTIVE has its isInteractive flag set and got
\* that status from RUNNING when its body returned without exception; a persisted
\* INTERACTIVE step becomes FINISHED only by continueFromInteractive, never by a run
\* (the resume algorithm, the executor, the callbacks).
C11_InteractiveOnlyByFlagAndPromotion ==
    /\ [](/\ \A i \in 1..Len(steps) :
                steps[i].status = STATUS_INTERACTIVE =>
                    /\ steps[i].isInteractive
                    /\ executed # <<>> /\ executed[Len(executed)] = i - 1
                    /\ lastExc.kind = "none"
          /\ \A i \in 1..Len(stepsFile) :
                stepsFile[i].status = STATUS_INTERACTIVE => stepsFile[i].isInteractive)
    /\ [][\A i \in 1..MaxSteps :
            /\ BecomesInteractive(i) =>
                   /\ pc = "body" /\ cur = i
                   /\ steps[i].status = STATUS_RUNNING
                   /\ lastExc'.kind = "none"
            /\ Promoted(i) =>
                   /\ Idle /\ pc' = "idle"
                   /\ stepsFile' = PromoteFirstInteractive(stepsFile)
                   /\ \A j \in 1..(i - 1) : stepsFile[j].status # STATUS_INTERACTIVE]_vars

\* a resume run over a persisted list whose interactive step was promoted keeps it
C11_Witness ==
    /\ Resumed /\ startIndex >= 2
    /\ prevAtStart[startIndex].isInteractive
    /\ prevAtStart[startIndex].status = STATUS_FINISHED
    /\ steps[startIndex].status = STATUS_FINISHED

\* C12: setAborted on a step whose body is executing sets ABORTED and the message
\* 'Aborted by user.'; when the body then returns without exception, Step.run
\* leaves that status and message and does not set FINISHED or INTERACTIVE.
C12_AbortSurvivesBodyReturn ==
    [][/\ (pc = "body" /\ steps[cur].status = STATUS_RUNNING
              /\ steps'[cur].status = STATUS_ABORTED) =>
             steps'[cur].error = <<"Aborted by user.">>
       /\ (pc = "body" /\ steps[cur].status = STATUS_ABORTED
              /\ pc' # "body" /\ lastExc'.kind = "none") =>
             /\ steps'[cur].status = STATUS_ABORTED
             /\ steps'[cur].error = <<"Aborted by user.">>]_vars

\* an aborted step whose body returned its result file, and an interactive one
C12_Witness ==
    /\ Len(executed) >= 2 /\ lastExc.kind = "none"
    /\ LastStep.status = STATUS_ABORTED
    /\ LastStep.error = <<"Aborted by user.">>
    /\ LastStep.isInteractive
    /\ steps[executed[1] + 1].status = STATUS_ABORTED
    /\ steps[executed[1] + 1].resultFiles # <<>>

\* C13 as stated: once a step of the run has ended ABORTED, the finished callback did
\* not tell the executor to continue: the run is stopped and no later step is started.
C13_AsStated ==
    \A i \in 1..Len(steps) :
        (i - 1 \in Executed /\ steps[i].status = STATUS_ABORTED) =>
            /\ pc \in {"stopped", "returned", "idle"}
            /\ executed[Len(executed)] = i - 1

\* C14: on return from the started callback the persisted step is RUNNING, on return
\* from the finished callback it has the step's status (FINISHED, FAILED or
\* INTERACTIVE); at every point of a run each persisted status is the step's status
\* as of the last callback for it.
C14_PersistedFollowsCallbacks ==
    (ReachedSteps /\ pc # "idle") =>
        /\ Len(stepsFile) = Len(steps)
        /\ \A i \in 1..Len(steps) : stepsFile[i].status = steps[i].status
        /\ pc \in {"body", "crashed"} => stepsFile[cur].status = STATUS_RUNNING
        /\ (pc \in {"steps", "stopped", "returned"} /\ executed # <<>>) =>
               /\ stepsFile[executed[Len(executed)] + 1].status = LastStep.status
               /\ LastStep.status \in {STATUS_FINISHED, STATUS_FAILED, STATUS_INTERACTIVE}

C14_Witness ==
    /\ ReachedSteps /\ pc = "body" /\ cur = 3
    /\ stepsFile[1].status = STATUS_FINISHED /\ 1 \in Executed
    /\ stepsFile[3].status = STATUS_RUNNING /\ prevAtStart # <<>>

\* the body of the running "f" step returns its result path while that path does
\* not exist
BodyReturnedMissing ==
    /\ pc = "body" /\ pc' # "body"
    /\ steps[cur].funcName = "f"
    /\ PathOf(cur) \notin files'
    /\ lastExc'.msg \notin {<<"boom">>, <<"interrupt">>}

\* C15 as stated: a function step whose body returns result paths of which some do not
\* exist ends the run FINISHED.
C15_AsStated ==
    [][BodyReturnedMissing => steps'[cur].status = STATUS_FINISHED]_vars

\* C15 amended: such a step ends the run FAILED with the message 'Missing filePaths: '
\* followed by the missing paths, records no result files, and stops the run; a later
\* resume run computes an index no greater than the position of a persisted FAILED
\* step.
C15_MissingResultFilesFailStep ==
    /\ [][BodyReturnedMissing =>
            /\ steps'[cur].status = STATUS_FAILED
            /\ steps'[cur].error = <<"Missing filePaths: ", PathOf(cur)>>
            /\ steps'[cur].resultFiles = <<>>
            /\ stepsFile'[cur] = steps'[cur]
            /\ pc' = "stopped"]_vars
    /\ [](Resumed =>
            \A k \in 0..(Len(prevAtStart) - 1) :
                (k < Len(FreshSteps) /\ prevAtStart[k + 1].status = STATUS_FAILED)
                    => startIndex <= k)

C15_Witness ==
    /\ Resumed /\ runs = 2 /\ startIndex >= 1 /\ startIndex < Len(prevAtStart)
    /\ prevAtStart[startIndex + 1].status = STATUS_FAILED
    /\ prevAtStart[startIndex + 1].error = <<"Missing filePaths: ", PathOf(startIndex + 1)>>
    /\ startIndex \in Executed

\* ------------------------------------------------- claims on the graph mapper
\* the handles of the attributes of the in-memory Objects in S
ChildSet(S) == UNION {{heap[x].attrs[k][2] : k \in 1..Len(heap[x].attrs)} : x \in S}

RECURSIVE Closure(_, _)
Closure(S, n) == IF n = 0 THEN S ELSE Closure(S \cup ChildSet(S), n - 1)

\* the Objects reachable from x through one or more attributes
Below(x) == Closure(ChildSet({x}), MaxObjs)

\* the attribute graph under h holds an Object that is reachable from itself
CyclicFrom(h) == \E x \in {h} \cup Below(h) : x \in Below(x)

\* the row of the in-memory Object with handle h
RowOf(h) == rows[heap[h].objId]

\* the step is the call op(arg) of the mapper
IsCall(op, arg) == last'.calls = last.calls + 1 /\ last'.op = op /\ last'.arg = arg

\* the in-memory tree under h and the tree under the built instance i agree in
\* classes, child keys, scalar values and the ids of the Pointers' referents
RECURSIVE SameTree(_, _, _)
SameTree(h, i, n) ==
    LET o == heap[h]
        b == mapper.built[i]
    IN /\ o.cls = b.cls
       /\ o.cls = "Integer" => o.value = b.value
       /\ o.cls = "Pointer" =>
              IF o.value = NoneId THEN b.value = NoneId
              ELSE /\ b.value # NoneId
                   /\ mapper.built[b.value].objId = heap[o.value].objId
       /\ {o.attrs[k][1] : k \in 1..Len(o.attrs)} = {b.attrs[k][1] : k \in 1..Len(b.attrs)}
       /\ n > 0 => \A k \in 1..Len(o.attrs) :
                       SameTree(o.attrs[k][2], GetAttr(b, o.attrs[k][1]), n - 1)

\* insert(h) was the first call and ended normally, the tree was not edited since,
\* each of its Pointers has no referent or a stored one, and the step is
\* selectById(h.id) on a mapper with an empty cache
RoundTrip(h) ==
    /\ last.calls = 1 /\ last.op = "insert" /\ last.arg = h /\ last.exc = OK
    /\ ~last.edited
    /\ \A x \in {h} \cup Below(h) :
           (heap[x].cls = "Pointer" /\ heap[x].value # NoneId)
               => heap[heap[x].value].objId # NoneId
    /\ mapper.objDict = <<>>
    /\ IsCall("selectById", heap[h].objId)

\* C16 as stated: for an Object tree stored with insert(root), selectById(root.id) on
\* a mapper with an empty cache returns a tree with the same child keys, the same
\* scalar values and Pointers that resolve to objects with the ids of the original
\* referents.
C16_AsStated ==
    [][\A h \in Handles :
          RoundTrip(h) => (/\ last.exc = OK
                           /\ last.result # NoneId
                           /\ SameTree(h, last.result, MaxObjs))']_vars

\* C17 as stated: updateTo on an attribute graph in which an Object is reachable from
\* itself through child attributes ends with the circular-reference error.
C17_AsStated ==
    [][\A h \in Handles :
          (IsCall("updateTo", h) /\ CyclicFrom(h)) => last'.exc = "Circular reference"]_vars

\* C18 as stated: after updateTo returned, the row of every Pointer queued as pending
\* in the pass, whose referent has an id by then, holds the id of that referent.
C18_AsStated ==
    (last.op = "updateTo" /\ last.exc = OK /\ ~last.edited) =>
        \A k \in 1..Len(mapper.updatePendingPointers) :
            LET ptr == heap[mapper.updatePendingPointers[k]]
            IN heap[ptr.value].objId # NoneId
                   => rows[ptr.objId].value = StrId(heap[ptr.value].objId)

\* C19 as stated: after insert(root) completed, the row of a Pointer of the tree whose
\* referent was inserted in the same tree holds the referent's id, and no Pointer row
\* holds a placeholder that is not an object id.
C19_AsStated ==
    (last.calls = 1 /\ last.op = "insert" /\ last.exc = OK /\ ~last.edited) =>
        \A h \in Handles :
            (/\ heap[h].cls = "Pointer" /\ heap[h].objId # NoneId
             /\ heap[h].value # NoneId /\ heap[heap[h].value].objId # NoneId)
                => /\ RowOf(h).value = StrId(heap[heap[h].value].objId)
                   /\ IsInt(RowOf(h).value)

\* the ids from the root row down to row r, as name components
RECURSIVE IdPath(_)
IdPath(r) ==
    IF r.parent_id = NoneId THEN <<ToString(r.id)>>
    ELSE Append(IdPath(rows[r.parent_id]), ToString(r.id))

\* row r is below row o in the parent_id relation
RECURSIVE IsBelow(_, _)
IsBelow(r, o) ==
    /\ r.parent_id # NoneId
    /\ r.parent_id = o.id \/ IsBelow(rows[r.parent_id], o)

\* C20 as stated: after any calls of insert, insertChild and updateTo, every stored
\* row with a parent_id is named P.key, P being the id path of its parent row (so
\* the last but one component of the name is the parent_id), and the
\* rows whose name starts with the id path of a row followed by '.' are exactly the
\* rows below it.
C20_AsStated ==
    \A j \in 1..Len(rows) :
        /\ rows[j].parent_id # NoneId =>
               /\ rows[j].parent_id \in 1..(j - 1)
               /\ Len(rows[j].name) >= 2
               /\ SubSeq(rows[j].name, 1, Len(rows[j].name) - 1)
                      = IdPath(rows[rows[j].parent_id])
               /\ rows[j].name[Len(rows[j].name) - 1] = ToString(rows[j].parent_id)
        /\ \A o \in 1..Len(rows) :
               (/\ Len(rows[j].name) > Len(IdPath(rows[o]))
                /\ SubSeq(rows[j].name, 1, Len(IdPath(rows[o]))) = IdPath(rows[o]))
                   <=> IsBelow(rows[j], rows[o])

\* ------------------------------- claims on deleting and relating Objects
\* the characters of name start with the characters of prefix and a '.'
StartsWithDot(name, prefix) ==
    /\ Len(Text(name)) > Len(Text(prefix))
    /\ \A k \in 1..Len(Text(prefix)) : Text(name)[k] = Text(prefix)[k]
    /\ Text(name)[Len(Text(prefix)) + 1] = "."

\* the rows delete(h) is to remove: the row of h and the rows named under its id path
ToDelete(h) ==
    {j \in 1..Len(rows) :
        /\ rows[j].id # NoneId
        /\ \/ rows[j].id = heap[h].objId
           \/ /\ HasRow(rows, heap[h].objId)
              /\ StartsWithDot(rows[j].name, IdPath(rows[heap[h].objId]))}

\* C21: a delete(obj) that returns removes the row of obj and every row whose name
\* starts with the id path of obj followed by '.', and leaves every other row of
\* Objects as it was, the rows of ids that share leading digits with the id of obj
\* included.
C21_DeleteRemovesSubtreeOnly ==
    [][\A h \in Handles :
          (IsCall("delete", h) /\ last'.exc = OK) =>
              /\ Len(rows') = Len(rows)
              /\ \A j \in 1..Len(rows) :
                     rows'[j] = IF j \in ToDelete(h) THEN DeletedRow ELSE rows[j]]_vars

\* the Object with id 1 and its child were deleted; the Object with id 10 and its
\* child are still stored
C21_Witness ==
    /\ last.op = "delete" /\ last.exc = OK
    /\ heap[last.arg].objId = 1 /\ rows[1] = DeletedRow
    /\ \E c \in Handles : heap[c].objParentId = 1 /\ rows[heap[c].objId] = DeletedRow
    /\ HasRow(rows, 10)
    /\ \E j \in 1..Len(rows) : rows[j].parent_id = 10 /\ rows[j].name[1] = "10"

\* the name prefix of the Object stored in row r
RowPrefix(r) ==
    IF Len(r.name) >= 2 THEN Append(SubSeq(r.name, 1, Len(r.name) - 1), ToString(r.id))
    ELSE <<ToString(r.id)>>

\* a row named under the row objId designates, as its parent, an id no row has
HasOrphanBelow(objId) ==
    /\ HasRow(rows, objId)
    /\ \E j \in 1..Len(rows) :
           /\ rows[j].id # NoneId
           /\ StartsWithDot(rows[j].name, RowPrefix(rows[objId]))
           /\ \E n \in 1..Len(rows) : /\ ToString(n) = rows[j].name[Len(rows[j].name) - 1]
                                      /\ ~HasRow(rows, n)

\* C22 as stated: selectById raises the structural error, and returns no partially
\* built object, whenever the name of a descendant row designates a parent id that
\* is not among the objects loaded for this call.
C22_AsStated ==
    [][\A objId \in 1..Len(rows) :
          (IsCall("selectById", objId) /\ HasOrphanBelow(objId)) =>
              /\ last'.exc = "Parent object was not found"
              /\ last'.result = NoneId]_vars

\* the step is the call op of the mapper
IsCallOf(op) == last'.calls = last.calls + 1 /\ last'.op = op

\* C23 as stated: insertRelation, getRelationChilds, getRelationParents and
\* getRelationsByCreator each fail when a participating object has no id, and
\* insertRelation then leaves the Relations table unchanged.
C23_AsStated ==
    [][/\ (/\ IsCallOf("insertRelation")
           /\ \E k \in 1..3 : heap[last'.arg[k]].objId = NoneId)
          => (last'.exc # OK /\ relations' = relations)
       /\ \A op \in {"getRelationChilds", "getRelationParents", "getRelationsByCreator"} :
              (IsCallOf(op) /\ heap[last'.arg[1]].objId = NoneId) => last'.exc # OK]_vars

\* C24 as stated: delete(creator) of an object that created relations succeeds and
\* leaves no row of Relations whose creator is that object; the relations other
\* objects created that involve no deleted object remain.
C24_AsStated ==
    [][\A h \in Handles :
          (/\ IsCall("delete", h)
           /\ \E k \in 1..Len(relations) : relations[k].parent_id = heap[h].objId)
          => /\ last'.exc = OK
             /\ \A k \in 1..Len(relations') : relations'[k].parent_id # heap[h].objId
             /\ \A k \in 1..Len(relations) :
                    (/\ relations[k].parent_id # heap[h].objId
                     /\ HasRow(rows', relations[k].object_parent_id)
                     /\ HasRow(rows', relations[k].object_child_id))
                        => \E n \in 1..Len(relations') : relations'[n] = relations[k]]_vars

\* ------------------------------------------------- claims on Protocol outputs
\* Protocol.iterInputAttributes: the Pointer attributes of p that have a value
InputsOf(p) ==
    {heap[p].attrs[k][2] : k \in {j \in 1..Len(heap[p].attrs) :
        /\ heap[heap[p].attrs[j][2]].cls = "Pointer"
        /\ heap[heap[p].attrs[j][2]].value # NoneId}}

\* C30 as stated: after _defineOutputs(k=v) on a stored Protocol, v is stored as
\* the Protocol's child, k is listed in its outputs, and a source Relation from
\* each input of the Protocol to v exists (v an Object whose attributes hold no
\* cycle).
C30_AsStated ==
    [][\A p \in Handles, c \in Handles :
          (/\ IsCallOf("defineOutputs") /\ last'.arg = <<p, c>>
           /\ heap[p].objId # NoneId /\ ~(CyclicFrom(c))')
          => /\ last'.exc = OK
             /\ HasRow(rows', heap'[c].objId)
             /\ rows'[heap'[c].objId].parent_id = heap[p].objId
             /\ \E k \in 1..Len(heap'[p].outputs) : heap'[p].outputs[k] = KeyOf(c)
             /\ \A i \in InputsOf(p) :
                    \E k \in 1..Len(relations') :
                        /\ relations'[k].object_child_id = heap'[c].objId
                        /\ relations'[k].object_parent_id
                               \in {heap[i].objId, heap[heap[i].value].objId}]_vars

\* ------------------------------------------------- claims on the flat mapper
\* the items of a set, by id
RECURSIVE ItemsById(_)
ItemsById(S) ==
    IF S = {} THEN <<>>
    ELSE LET o == CHOOSE x \in S : \A y \in S : x.objId <= y.objId
         IN <<o>> \o ItemsById(S \ {o})

\* what the reader of the results saw, in order
Seen(results) == [k \in 1..Len(results) |-> results[k].seen]

\* C25: a flat mapper opened on the file of a Set whose Items were inserted and
\* committed reads, with selectAll, exactly those Items: as many, in id order,
\* each with the id and the attribute values it was stored with, through the
\* template loaded from Classes.
C25_ReopenedSetReadsBack ==
    [][\A iterate \in BOOLEAN :
          (/\ IsCallOf("selectAll") /\ last'.arg = iterate
           /\ flat.found /\ flat.items # {})
          => /\ last'.exc = OK
             /\ Seen(flat'.results) = ItemsById(flat.items)]_vars

C25_Witness ==
    /\ last.op = "selectAll" /\ flat.found
    /\ flat.items = flat.written /\ Cardinality(flat.written) >= 2
    /\ Len(flat.results) = Cardinality(flat.written)
    /\ flat.results[1].seen.attrs # flat.results[2].seen.attrs

\* C26: updateTo of an Item of the Set changes the row of that Item and no other
\* row; once the update is committed and the file is reopened, selectById of
\* the Item's id returns the updated values.
C26_UpdateIsReadBack ==
    [][/\ \A obj \in Items :
              (/\ IsCallOf("updateTo") /\ last'.arg = obj
               /\ \E o \in flat.items : o.objId = obj.objId)
              => /\ last'.exc = OK
                 /\ {r \in flat'.st.conn.objects : r[1] # obj.objId}
                        = {r \in flat.st.conn.objects : r[1] # obj.objId}
       /\ \A objId \in 1..MaxItems :
              (/\ IsCallOf("selectById") /\ last'.arg = objId
               /\ flat.found /\ objId \in flat.updated)
              => /\ last'.exc = OK
                 /\ Seen(flat'.results) = ItemsById({o \in flat.items : o.objId = objId})]_vars

C26_Witness ==
    /\ last.op = "selectById" /\ flat.found
    /\ last.arg \in flat.writtenUpdated
    /\ Cardinality(flat.items) >= 2
    /\ Len(flat.results) = 1

\* C27 as stated: on a flat mapper opened on a file that has the tables, insert
\* of an Item whose id is not used succeeds, adds one row and leaves Classes as
\* it is.
C27_AsStated ==
    [][\A obj \in Items :
          (/\ IsCallOf("insert") /\ last'.arg = obj
           /\ flat.found
           /\ \A r \in flat.st.conn.objects : r[1] # obj.objId)
          => /\ last'.exc = OK
             /\ Cardinality(flat'.st.conn.objects) = Cardinality(flat.st.conn.objects) + 1
             /\ flat'.st.conn.classes = flat.st.conn.classes]_vars

\* the Set was created for Items: Classes holds the attributes of an Item
SetOfItems ==
    /\ flat.st.conn.tables
    /\ \E obj \in Items :
           [k \in 1..Len(flat.st.conn.classes) |->
               <<flat.st.conn.classes[k].label_property, flat.st.conn.classes[k].class_name>>]
               = GetObjDict(obj)

\* C28 as stated: insert and updateTo of an object whose attributes are not those
\* of the Set raise and leave the Objects table as it is.
C28_AsStated ==
    [][\A obj \in OtherItems :
          (/\ IsCallOf("insert") \/ IsCallOf("updateTo")
           /\ last'.arg = obj
           /\ SetOfItems)
          => /\ last'.exc # OK
             /\ flat'.st.conn.objects = flat.st.conn.objects]_vars

\* the read ops that iterate and those that return a list
Iterates == (IsCallOf("selectAll") /\ last'.arg = TRUE) \/ IsCallOf("selectById")
Lists == (IsCallOf("selectAll") /\ last'.arg = FALSE) \/ IsCallOf("selectBy")

\* C29: the results of selectById and of selectAll in iterate mode are the
\* template: each of them, and every result of that kind the caller got from
\* the read before, shows what the last row read put into the template; the
\* results of selectBy and of selectAll in list mode are clones, and the clones
\* the caller got from the read before show what they showed.
C29_TemplateSharedClonesNot ==
    [][((Iterates \/ Lists) /\ last'.exc = OK) =>
          /\ \A k \in 1..Len(flat'.results) :
                 /\ flat'.results[k].ref = IF Iterates THEN "template" ELSE "clone"
                 /\ flat'.results[k].obj =
                        IF Iterates THEN flat'.results[Len(flat'.results)].seen
                        ELSE flat'.results[k].seen
          /\ \A k \in 1..Len(flat.results) :
                 IF flat.results[k].ref = "template"
                 THEN flat'.results # <<>> =>
                          flat'.held[k].obj = flat'.results[Len(flat'.results)].seen
                 ELSE flat'.held[k].obj = flat.results[k].seen]_vars

C29_Witness ==
    /\ last.op = "selectAll"
    /\ \E k \in 1..Len(flat.results) :
           flat.results[k].ref = "template" /\ flat.results[k].obj # flat.results[k].seen
    /\ \E k \in 1..Len(flat.held) :
           flat.held[k].ref = "clone" /\ flat.held[k].obj # flat.st.objTemplate

\* ------------------------------------------ callers that insert steps
\* a step-definition hook calls _insertFunctionStep once more: 'prerequisites'
\* is left out or is a list of at most one integer the caller chose
InsertStepOf(d) ==
    /\ pc = "idle"
    /\ runs = 0
    /\ Len(steps) < MaxSteps
    /\ steps' = InsertFunctionStep(steps, d)
    /\ params' = Append(params, d)
    /\ UNCHANGED <<prot, stepsFile, files, pc, cur, runs, startIndex, executed,
                   prevAtStart, filesAtStart, modeAtStart, validation, lastExc>>
    /\ UNCHANGED mapperVars

SpecInsert ==
    InitStore /\
    [][\E f \in FuncNames, a \in 1..MaxArg, h \in BOOLEAN :
         \E q \in IF h THEN {<<>>} \cup {<<i>> : i \in 1..MaxSteps} ELSE {<<>>} :
             InsertStepOf([funcName |-> f, args |-> a, isInteractive |-> (f = "pick"),
                           hasPrerequisites |-> h, prerequisites |-> q])]_vars

\* ------------------------------------- a steps executor that uses threads
\* ThreadStepExecutor: steps are started in index order as soon as their
\* prerequisites are FINISHED and run side by side; the callbacks are made one
\* at a time.  pc = "stopped" once a finished callback has returned False: no
\* step is started any more, the steps already running run to their end.
ParallelStart(i) ==
    /\ pc = "steps"
    /\ i \in 1..Len(steps)
    /\ GetStatus(steps[i]) = "new"
    /\ \A j \in 1..(i - 1) : GetStatus(steps[j]) # "new"
    /\ PrerequisitesDone(steps, i)
    /\ stepsFile' = UpdateStep(stepsFile, i, SetRunning(steps[i]))
    /\ steps' = [steps EXCEPT ![i] = SetRunning(SetRunning(@))]
    /\ UNCHANGED <<params, prot, files, pc, cur, runs, startIndex, executed,
                   prevAtStart, filesAtStart, modeAtStart, validation, lastExc>>
    /\ UNCHANGED mapperVars

\* Step.run of a running step from the return of self._run(), and
\* Protocol._stepFinished
ParallelFinish(i, out) ==
    /\ pc \in {"steps", "stopped"}
    /\ i \in 1..Len(steps)
    /\ steps[i].status = STATUS_RUNNING
    /\ out \in BodyOutcomes(i, steps[i].funcName)
    /\ out.exc.kind # "BaseException"
    /\ files' = files \cup out.creates
    /\ executed' = Append(executed, i - 1)
    /\ LET ran == FunctionStepRun(steps[i], out, files')
           r == StepRun(ran)
           fin == StepFinished(prot, r.step)
       IN /\ steps' = [steps EXCEPT ![i] = r.step]
          /\ lastExc' = ran.exc
          /\ prot' = fin.prot
          /\ stepsFile' = UpdateStep(stepsFile, i, r.step)
          /\ pc' = IF fin.doContinue THEN pc ELSE "stopped"
    /\ UNCHANGED <<params, cur, runs, startIndex, prevAtStart, filesAtStart,
                   modeAtStart, validation>>
    /\ UNCHANGED mapperVars

\* runSteps returns when no step is running and none is left to start: the
\* end of _runSteps, of Step.run and of Protocol.run
ParallelReturn ==
    /\ pc \in {"steps", "stopped"}
    /\ \A i \in 1..Len(steps) :
           /\ steps[i].status # STATUS_RUNNING
           /\ pc = "steps" => GetStatus(steps[i]) # "new"
    /\ prot' = StepRun([exc |-> NoExc, step |-> RunStepsEnd(prot)]).step
    /\ pc' = "returned"
    /\ UNCHANGED <<params, steps, stepsFile, files, cur, runs, startIndex, executed,
                   prevAtStart, filesAtStart, modeAtStart, validation, lastExc>>
    /\ UNCHANGED mapperVars

\* the runs of a Protocol, unchanged between runs, with the thread executor
SpecParallel ==
    Init /\
    [][\/ \E errs \in ValidationErrors : Run(params, ExecutorIsSet, errs)
       \/ \E i \in 1..MaxSteps : ParallelStart(i)
       \/ \E i \in 1..MaxSteps :
              \E out \in BodyOutcomes(i, IF i <= Len(steps) THEN steps[i].funcName ELSE "f") :
                  ParallelFinish(i, out)
       \/ ParallelReturn
       \/ ContinueFromInteractive]_vars

\* ------------------------------ callers that store, load and delete Objects
\* (Objects without attributes)
SpecReload ==
    InitStore /\
    [][\/ \E h \in Handles : InsertOf(MaxReloadCalls, h)
       \/ \E objId \in 1..Len(rows) : SelectByIdOf(MaxReloadCalls, objId)
       \/ \E h \in Handles : Delete(MaxReloadCalls, h)]_vars

\* ------------------------------ callers that store a tree again and again
\* insert, and SqliteMapper.updateTo of a stored object (Protocol._store:
\* mapper.store)
SpecUpdate ==
    InitStore /\
    [][\/ \E p \in Handles, c \in Handles : SetAttr(p, c)
       \/ \E p \in Handles : \E t \in Handles \ {p} : SetPointer(p, t)
       \/ \E h \in Handles : InsertOf(MaxStoreCalls, h)
       \/ \E h \in Handles :
              /\ heap[h].objId # NoneId
              /\ CalledUpTo(MaxStoreCalls, "updateTo", h, MapperUpdateTo(Before, h),
                            NoneId)]_vars

\* ------------------------- a Protocol that defines the same output again
\* a stored Protocol defines its output 'out' and then defines it anew
SpecReplace ==
    InitStore /\
    [][\/ \E p \in Handles, c \in Handles : SetAttr(p, c)
       \/ \E h \in Handles : InsertOf(MaxStoreCalls, h)
       \/ \E p \in Handles, c \in Handles :
              DefineOutputs(MaxStoreCalls, p, "out", c)]_vars

\* the 1-based positions of the persisted steps that wait for the user
Waiting(stored) == {i \in 1..Len(stored) : GetStatus(stored[i]) = STATUS_INTERACTIVE}

\* C31: continueFromInteractive changes exactly one persisted step, the first
\* in list order whose status is INTERACTIVE, to FINISHED (only its status
\* changes) and leaves every other persisted step as it was; with no INTERACTIVE
\* persisted step, or with no step file, the step file is what it was.
C31_PromotesFirstInteractiveOnly ==
    [][ContinueFromInteractive =>
          /\ Len(stepsFile') = Len(stepsFile)
          /\ \A i \in 1..Len(stepsFile) :
                 stepsFile'[i] =
                     IF i \in Waiting(stepsFile) /\ \A j \in Waiting(stepsFile) : i <= j
                     THEN [stepsFile[i] EXCEPT !.status = STATUS_FINISHED]
                     ELSE stepsFile[i]]_vars

\* a continueFromInteractive has just promoted the second step of a step file
\* whose third step is INTERACTIVE too and stays so
C31_Witness ==
    /\ pc = "idle"
    /\ Len(stepsFile) = 3 /\ Len(steps) = 3
    /\ steps[2].status = STATUS_INTERACTIVE
    /\ stepsFile[2] = [steps[2] EXCEPT !.status = STATUS_FINISHED]
    /\ stepsFile[3].status = STATUS_INTERACTIVE
    /\ stepsFile[1] = steps[1] /\ stepsFile[3] = steps[3]

\* C32 as stated: after any sequence of insertions every entry of the
\* prerequisites of the k-th inserted step, defaulted or passed by the caller,
\* is the index of a step inserted earlier (1 <= p < k).
C32_AsStated ==
    \A k \in 1..Len(steps) :
        \A j \in 1..Len(steps[k].prerequisites) :
            steps[k].prerequisites[j] \in 1..(k - 1)

\* a resume run with an unchanged step list begins after the run before halted
\* at the interactive step at 0-based position k with every earlier step
\* FINISHED and no later step started, and continueFromInteractive promoted
\* that step: the step file the run finds
ResumesAfterPromotion(k) ==
    /\ Resumed /\ Unchanged
    /\ k < Len(prevAtStart)
    /\ prevAtStart[k + 1].isInteractive
    /\ \A i \in 1..Len(prevAtStart) :
           GetStatus(prevAtStart[i]) = IF i <= k + 1 THEN STATUS_FINISHED ELSE "new"
    /\ \A i \in 1..k : ~prevAtStart[i].isInteractive

\* the positions from the resume index on, in order, up to and including the
\* first whose step was left other than FINISHED (all of them when there is none)
RECURSIVE Remaining(_)
Remaining(i) ==
    IF i >= Len(steps) THEN <<>>
    ELSE IF IsFinished(steps[i + 1]) THEN <<i>> \o Remaining(i + 1)
    ELSE <<i>>

C34_AsStated ==
    (/\ pc = "returned" /\ ReachedSteps
     /\ \E i \in 1..Len(steps) : (i - 1) \in Executed /\ steps[i].status = STATUS_FAILED)
    => prot.status = STATUS_FAILED

\* the run in progress, or the one that just ended, reached step execution
InOrAfterSteps == ReachedSteps /\ pc \in {"steps", "body", "stopped", "returned", "crashed"}

\* C35: from the moment a run reaches step execution, before its first step
\* starts, and until the user asks for another mode after the run, the
\* Protocol's run mode is RESUME, also when the run was started in RESTART;
\* the run mode changes only by such a request or by a run setting it to
\* RESUME, so the run after a RESTART run resumes unless RESTART is asked again.
C35_RunModeResetToResume ==
    /\ [](InOrAfterSteps => prot.runMode = MODE_RESUME)
    /\ [][prot'.runMode # prot.runMode =>
              \/ SetRunMode(prot'.runMode)
              \/ runs' = runs + 1 /\ startIndex' >= 0 /\ prot'.runMode = MODE_RESUME]_vars
    /\ [][(runs' = runs + 1 /\ pc \in {"returned", "crashed"} /\ ReachedSteps) =>
              modeAtStart' = MODE_RESUME]_vars

\* a run started in RESTART has stored its steps and no step has started yet
C35_Witness ==
    /\ pc = "steps" /\ executed = <<>> /\ cur = 1
    /\ modeAtStart = MODE_RESTART /\ startIndex = 0
    /\ prot.runMode = MODE_RESUME
    /\ \A i \in 1..Len(steps) : GetStatus(steps[i]) = "new"

\* the finished callbacks made so far in the run: one per executed body, but
\* none for a body that an exception other than an Exception left
Callbacks == Len(executed) - (IF pc = "crashed" THEN 1 ELSE 0)

\* C36: at every point of a run that reached step execution the resume index is
\* at most stepsDone, stepsDone is at most numberOfSteps, numberOfSteps is the
\* length of the step list, and stepsDone is the resume index plus the number of
\* finished callbacks made so far, whatever status they reported.
C36_StepsDoneCountsCallbacks ==
    InOrAfterSteps =>
        /\ startIndex <= prot.stepsDone
        /\ prot.stepsDone <= prot.numberOfSteps
        /\ prot.numberOfSteps = Len(steps)
        /\ prot.stepsDone = startIndex + Callbacks

\* a resume run from index 1 whose second callback reported INTERACTIVE or FAILED
C36_Witness ==
    /\ pc = "returned" /\ startIndex = 1 /\ Len(steps) = 3
    /\ executed = <<1, 2>>
    /\ steps[3].status \in {STATUS_INTERACTIVE, STATUS_FAILED}
    /\ prot.stepsDone = 3 /\ prot.numberOfSteps = 3

\* C37 as stated: a selectById of an id that the same mapper loaded before and
\* whose row a delete has removed since returns no object.
C37_AsStated ==
    [][\A objId \in 1..Len(rows) :
          (/\ IsCall("selectById", objId)
           /\ objId \in DOMAIN mapper.objDict
           /\ ~HasRow(rows, objId))
          => last'.result = NoneId]_vars

\* the attribute graph under h is a tree: no Object is reachable from itself
\* and every Object below h is held in exactly one attribute of the graph
IsTree(h) ==
    /\ ~CyclicFrom(h)
    /\ \A x \in Below(h) :
           Cardinality({pk \in ({h} \cup Below(h)) \X (1..MaxObjs) :
                           /\ pk[2] <= Len(heap[pk[1]].attrs)
                           /\ heap[pk[1]].attrs[pk[2]][2] = x}) = 1

\* every Object of the graph under h has an id and a row
StoredTree(h) == \A x \in {h} \cup Below(h) : HasRow(rows, heap[x].objId)

\* C38 as stated: updateTo of a stored acyclic tree succeeds, and when the
\* call before was a successful updateTo of the same tree and no Object was
\* changed since, it leaves the rows as they were.
C38_AsStated ==
    [][\A h \in Handles :
          (IsCall("updateTo", h) /\ IsTree(h) /\ StoredTree(h)) =>
              /\ last'.exc = OK
              /\ (last.op = "updateTo" /\ last.arg = h /\ last.exc = OK /\ ~last.edited)
                     => rows' = rows]_vars

\* C39 as stated: when _defineOutputs(out=v2) returns on a stored Protocol p
\* whose attribute out held the stored Object v1, the rows of v1 and of the
\* Objects below it are gone, v2 is stored as p's child named out, and out
\* occurs exactly once in p's outputs.
C39_AsStated ==
    [][\A p \in Handles, v1 \in Handles, v2 \in Handles :
          (/\ IsCall("defineOutputs", <<p, v2>>) /\ last'.exc = OK
           /\ HasRow(rows, heap[p].objId)
           /\ GetAttr(heap[p], "out") = v1 /\ v1 # v2
           /\ HasRow(rows, heap[v1].objId))
          => /\ \A x \in {v1} \cup Below(v1) : ~HasRow(rows', heap[x].objId)
             /\ GetAttr(heap'[p], "out") = v2
             /\ HasRow(rows', heap'[v2].objId)
             /\ rows'[heap'[v2].objId].parent_id = heap[p].objId
             /\ rows'[heap'[v2].objId].name[Len(rows'[heap'[v2].objId].name)] = "out"
             /\ Cardinality({k \in 1..Len(heap'[p].outputs) :
                                heap'[p].outputs[k] = "out"}) = 1]_vars

\* C40 as stated: a run whose validation passed and whose steps are all
\* FINISHED when the executor has returned ends with the Protocol FINISHED.
C40_AsStated ==
    (/\ pc = "returned" /\ ReachedSteps /\ validation = <<>>
     /\ \A i \in 1..Len(steps) : IsFinished(steps[i]))
    => prot.status = STATUS_FINISHED

====
